---- MODULE Spec2Model ----
(***************************************************************************)
(* restsession: a validated, hook-ordered wrapper around a requests        *)
(* session.  The repository holds two revisions of the facade class        *)
(* RestSession (restsession/session.py and restsession/newsession.py) and  *)
(* the latest revision of the parameter model                              *)
(* (src/restsession/models.py).  The variable rev says which of them one   *)
(* behaviour runs; every operation is translated from the revision that    *)
(* defines it.                                                             *)
(***************************************************************************)
EXTENDS Integers, Sequences, FiniteSets, TLC

VARIABLES
    rev,              \* "session" | "newsession" | "model": the class instantiated
    ctor,             \* the constructor arguments of the instance
    params,           \* self._session_params: the validated parameter store
    adapters,         \* the adapters mounted on "http://" and "https://"
    http,             \* the transport session: hooks, headers, auth, base_url, ...
    reauth_count,     \* self.reauth_count
    max_reauth_attr,  \* self.max_reauth as reauth() reads it
    max_reauth_given, \* the max_reauth the caller gave last: constructor or assignment
    auth_calls,       \* how often the authenticator's reauth() has been invoked
    closure_keys,     \* the header keys the installed redirect closure captured
    req,              \* the last request() call: its URL, the redirects it met, its outcome
    wire,             \* the requests that call put on the wire, in order
    instances,        \* the _instances dictionaries of the singleton cache
    heap,             \* every object constructed so far: its class, open or closed,
                      \* and its fields as they were when the caller last left it
    self,             \* the object the caller holds: the variables above are the
                      \* fields of this object
    threads,          \* the threads inside Singleton.__call__: where each one is,
                      \* the object it has built and the object it returned
    last,             \* the last operation: its name, argument and what it raised
    ops               \* operations left before the exploration stops

vars == <<rev, ctor, params, adapters, http, reauth_count, max_reauth_attr,
          max_reauth_given, auth_calls, closure_keys, req, wire, instances, heap,
          self, threads, last, ops>>

----------------------------------------------------------------------------
(* Bounds of the exploration.                                              *)

MaxHookOps == 4
MaxParamOps == 2
MaxFlowOps == 3
MaxReauthOps == 6
MaxHooks == 2
MaxHops == 2
MaxObjects == 3
MaxTransportOps == 3
MaxResponses == 2
MaxUrlOps == 3
MaxObjectOps == 4
MaxThreads == 2
MaxThreadOps == 8

----------------------------------------------------------------------------
(* Python values: a type tag and a payload.                                *)

NoneV == [ty |-> "none", val |-> "None"]
IntV(n) == [ty |-> "int", val |-> n]
FloatV(t) == [ty |-> "float", val |-> t]        \* t: the number in tenths
NumStr(n) == [ty |-> "numstr", val |-> n]       \* the str of an integer: "2"
StrV(s) == [ty |-> "str", val |-> s]
BoolV(b) == [ty |-> "bool", val |-> b]
ListV(s) == [ty |-> "list", val |-> s]
DictV(d) == [ty |-> "dict", val |-> d]          \* d: a set of <<key, value>>
DictAnyV(d) == [ty |-> "dictany", val |-> d]    \* a dict with a value that is no str
TupleV(s) == [ty |-> "tuple", val |-> s]
AuthBaseV(n) == [ty |-> "authbase", val |-> n]
CallableV(n) == [ty |-> "callable", val |-> n]
UrlV(s) == [ty |-> "url", val |-> s]            \* a str, as its sequence of segments

Keys(d) == {p[1] : p \in d}
Range(s) == {s[i] : i \in DOMAIN s}

Ok(v) == [ok |-> TRUE, val |-> v]
Fail == [ok |-> FALSE, val |-> NoneV]

----------------------------------------------------------------------------
(* pydantic field types, as the three model revisions use them.  Each      *)
(* validator yields Ok(normalised value) or Fail (a ValidationError).      *)

\* StrictInt / StrictFloat / StrictBool / StrictStr: the exact type only.
StrictInt(v) == IF v.ty = "int" THEN Ok(v) ELSE Fail
StrictNumber(v) == IF v.ty \in {"int", "float"} THEN Ok(v) ELSE Fail
StrictBool(v) == IF v.ty = "bool" THEN Ok(v) ELSE Fail
OptionalStrictStr(v) == IF v.ty \in {"str", "none"} THEN Ok(v) ELSE Fail

\* int / float in lax mode: the str of a number is parsed, an int widens to float.
LaxInt(v) ==
    CASE v.ty = "int" -> Ok(v)
      [] v.ty = "numstr" -> Ok(IntV(v.val))
      [] OTHER -> Fail
LaxFloat(v) ==
    CASE v.ty = "float" -> Ok(v)
      [] v.ty = "int" -> Ok(FloatV(10 * v.val))
      [] v.ty = "numstr" -> Ok(FloatV(10 * v.val))
      [] OTHER -> Fail
LaxBool(v) == IF v.ty = "bool" THEN Ok(v) ELSE Fail

\* NonNegativeInt / NonNegativeFloat: lax parsing, then ge=0.
NonNegativeInt(v) ==
    LET r == LaxInt(v) IN IF r.ok /\ r.val.val >= 0 THEN r ELSE Fail
NonNegativeFloat(v) ==
    LET r == LaxFloat(v) IN IF r.ok /\ r.val.val >= 0 THEN r ELSE Fail

\* str
AnyStr(v) == IF v.ty \in {"str", "url"} THEN Ok(v) ELSE Fail

\* Optional[dict[str, str]] and dict
OptionalDict(v) == IF v.ty \in {"dict", "none"} THEN Ok(v) ELSE Fail
PlainDict(v) == IF v.ty \in {"dict", "dictany"} THEN Ok(v) ELSE Fail

\* Optional[Union[tuple[str, str], AuthBase]]
AuthField(v) ==
    CASE v.ty = "none" -> Ok(v)
      [] v.ty = "authbase" -> Ok(v)
      [] v.ty = "tuple" ->
            IF Len(v.val) = 2 /\ \A i \in 1..2 : v.val[i].ty = "str"
            THEN Ok(v) ELSE Fail
      [] OTHER -> Fail

\* list[Callable], and conlist(Callable, min_length=0, max_length=1)
CallableList(v) ==
    IF v.ty = "list" /\ \A i \in DOMAIN v.val : v.val[i].ty = "callable"
    THEN Ok(v) ELSE Fail
SingleHookList(v) ==
    IF CallableList(v).ok /\ Len(v.val) <= 1 THEN Ok(v) ELSE Fail

----------------------------------------------------------------------------
(* URL strings.  A str that parses as an absolute http(s) URL is the       *)
(* sequence of its segments: the scheme and host, then "/" and path names. *)

EndsWithSlash(u) == Len(u.val) > 0 /\ u.val[Len(u.val)] = "/"

\* str(AnyHttpUrl(v)): a URL with an empty path is printed with the path "/".
AnyUrlString(v) ==
    IF v.ty # "url" THEN Fail
    ELSE IF Len(v.val) = 1 THEN Ok(UrlV(Append(v.val, "/"))) ELSE Ok(v)

\* the registered codes of http.HTTPStatus
HTTPStatusValues ==
    {100, 101, 102, 103} \cup (200..208) \cup {226}
    \cup (300..305) \cup {307, 308}
    \cup (400..418) \cup (421..426) \cup {428, 429, 431, 451}
    \cup (500..508) \cup {510, 511}

----------------------------------------------------------------------------
(* restsession/newmodels.py: the per-field validator classes that          *)
(* session.py imports (TimeoutValidator ... AuthValidator) and the         *)
(* HttpSessionArguments record that inherits them.                         *)

StatusCodeInRange(v) ==
    IF v.ty = "int" /\ v.val >= 300 /\ v.val <= 599 THEN Ok(v) ELSE Fail

\* the element type of a list field
ListElement(kind, v) ==
    CASE kind = "conint" -> StatusCodeInRange(v)
      [] kind = "int" -> LaxInt(v)
      [] kind = "NonNegativeInt" -> NonNegativeInt(v)
      [] OTHER -> AnyStr(v)

\* list[T]: a list whose every element validates; the elements are normalised.
ListOf(kind, v) ==
    IF v.ty = "list" /\ \A i \in DOMAIN v.val : ListElement(kind, v.val[i]).ok
    THEN Ok(ListV([i \in DOMAIN v.val |-> ListElement(kind, v.val[i]).val]))
    ELSE Fail

\* BaseUrlValidator.base_url_must_be_a_url: checks, and returns url_val as given
base_url_must_be_a_url(v) ==
    CASE v.ty = "none" -> Ok(v)
      [] v.ty = "url" -> Ok(v)
      [] OTHER -> Fail

HttpSessionArguments(field, v) ==
    CASE field = "timeout" -> StrictNumber(v)
      [] field = "retries" -> StrictInt(v)
      [] field = "max_redirects" -> StrictInt(v)
      [] field = "backoff_factor" -> StrictNumber(v)
      [] field = "retry_status_code_list" -> ListOf("conint", v)
      [] field = "retry_method_list" -> ListOf("str", v)
      [] field = "respect_retry_headers" -> StrictBool(v)
      [] field = "base_url" -> base_url_must_be_a_url(v)
      [] field = "tls_verify" -> StrictBool(v)
      [] field = "username" -> OptionalStrictStr(v)
      [] field = "password" -> OptionalStrictStr(v)
      [] field = "auth" -> AuthField(v)
      [] field = "max_reauth" -> StrictInt(v)
      [] field = "headers" -> OptionalDict(v)
      [] field = "auth_headers" -> OptionalDict(v)
      [] field = "redirect_header_hook" -> SingleHookList(v)
      [] field = "request_exception_hook" -> SingleHookList(v)
      [] field = "response_hooks" -> CallableList(v)
      [] OTHER -> Fail

(* restsession/newmodels.py: SessionParamModel, the record newsession.py   *)
(* keeps; validate_assignment=True validates every assignment.  The three  *)
(* hook fields hold the lists the facade stores in them.                   *)
SessionParamModel_newmodels(field, v) ==
    CASE field = "timeout" -> LaxFloat(v)
      [] field = "retries" -> LaxInt(v)
      [] field = "max_redirects" -> LaxInt(v)
      [] field = "backoff_factor" -> LaxFloat(v)
      [] field = "retry_status_code_list" -> ListOf("int", v)
      [] field = "retry_method_list" -> ListOf("str", v)
      [] field = "respect_retry_headers" -> LaxBool(v)
      [] field = "base_url" -> base_url_must_be_a_url(v)
      [] field = "tls_verify" -> LaxBool(v)
      [] field = "auth" -> AuthField(v)
      [] field = "max_reauth" -> LaxInt(v)
      [] field = "headers" -> OptionalDict(v)
      [] field = "auth_headers" -> PlainDict(v)
      [] field = "redirect_header_hook" -> SingleHookList(v)
      [] field = "request_exception_hook" -> SingleHookList(v)
      [] field = "response_hooks" -> CallableList(v)
      [] OTHER -> Fail

(* src/restsession/models.py: SessionParamModel, the latest revision of    *)
(* the parameter model, with its two field validators.                     *)
base_url_ends_with_slash(v) ==
    IF v.ty # "none" /\ ~EndsWithSlash(v) THEN UrlV(Append(v.val, "/")) ELSE v

validate_http_status_code(v) ==
    IF \A i \in DOMAIN v.val : v.val[i].val \in HTTPStatusValues THEN Ok(v) ELSE Fail

SessionParamModel(field, v) ==
    CASE field = "timeout" -> NonNegativeFloat(v)
      [] field = "retries" -> NonNegativeInt(v)
      [] field = "max_redirects" -> NonNegativeInt(v)
      [] field = "backoff_factor" -> NonNegativeFloat(v)
      [] field = "retry_status_code_list" ->
            LET r == ListOf("NonNegativeInt", v)
            IN  IF r.ok THEN validate_http_status_code(r.val) ELSE Fail
      [] field = "retry_method_list" -> ListOf("str", v)
      [] field = "respect_retry_headers" -> StrictBool(v)
      [] field = "base_url" ->
            IF v.ty = "none" THEN Ok(base_url_ends_with_slash(v))
            ELSE LET r == AnyUrlString(v)
                 IN  IF r.ok THEN Ok(base_url_ends_with_slash(r.val)) ELSE Fail
      [] field = "tls_verify" -> StrictBool(v)
      [] field = "auth" -> AuthField(v)
      [] field = "max_reauth" -> NonNegativeInt(v)
      [] field = "headers" -> OptionalDict(v)
      [] OTHER -> Fail

----------------------------------------------------------------------------
(* restsession/defaults.py                                                 *)

DefaultTimeout == 5
DefaultRetries == 3
DefaultMaxRedirects == 16
DefaultBackoffTenths == 3
DefaultMaxReauth == 3

DEFAULT_HEADERS ==
    {<<"Content-Type", "application/json">>, <<"Accept", "application/json">>}

SESSION_DEFAULTS ==
    [ headers |-> DictV(DEFAULT_HEADERS),
      auth_headers |-> DictV({}),
      auth |-> NoneV,
      timeout |-> IntV(DefaultTimeout),
      retries |-> IntV(DefaultRetries),
      max_redirects |-> IntV(DefaultMaxRedirects),
      backoff_factor |-> FloatV(DefaultBackoffTenths),
      retry_status_code_list |-> ListV(<<IntV(408), IntV(413), IntV(429), IntV(503)>>),
      retry_method_list |->
          ListV(<<StrV("HEAD"), StrV("GET"), StrV("PUT"), StrV("POST"),
                  StrV("PATCH"), StrV("DELETE"), StrV("OPTIONS"), StrV("TRACE")>>),
      respect_retry_headers |-> BoolV(TRUE),
      base_url |-> NoneV,
      tls_verify |-> BoolV(TRUE),
      username |-> NoneV,
      password |-> NoneV,
      max_reauth |-> IntV(DefaultMaxReauth),
      redirect_header_hook |-> <<"remove_custom_auth_header_on_redirect">>,
      request_exception_hook |-> <<"default_request_exception_hook">>,
      response_hooks |-> << >> ]

\* requests.utils.default_headers(), what a requests Session starts with
RequestsDefaultHeaders == DictV({<<"User-Agent", "python-requests">>})

----------------------------------------------------------------------------
(* The transport's response-hook list.  An element is one hook, or (when a *)
(* list object was put into the list) a nested list of hooks.              *)

OneHook(h) == [nested |-> FALSE, items |-> <<h>>]
NestedList(l) == [nested |-> TRUE, items |-> l]
Flat(l) == [i \in DOMAIN l |-> OneHook(l[i])]

\* self.redirect_header_hook + self.response_hooks + self.request_exception_hook
Concatenated(p) ==
    Flat(p.redirect_header_hook \o p.response_hooks \o p.request_exception_hook)

\* [self.redirect_header_hook, self.response_hooks, self.request_exception_hook]
ListOfLists(p) ==
    << NestedList(p.redirect_header_hook),
       NestedList(p.response_hooks),
       NestedList(p.request_exception_hook) >>

\* names of the hooks a validated list[Callable] holds
HookNames(v) == [i \in DOMAIN v.val |-> v.val[i].val]

\* if not isinstance(hook, list): hook = [hook]
AsList(v) == IF v.ty = "list" THEN v ELSE ListV(<<v>>)

\* Python truthiness of a value
Truthy(v) ==
    CASE v.ty = "none" -> FALSE
      [] v.ty = "str" -> v.val # ""
      [] v.ty = "bool" -> v.val
      [] v.ty = "int" -> v.val # 0
      [] v.ty = "dict" -> v.val # {}
      [] OTHER -> TRUE

Mounted == {"http://", "https://"}

\* Retry(total=..., redirect=False, backoff_factor=..., ...) on a TimeoutHTTPAdapter
NewAdapter(p) ==
    [ timeout |-> p.timeout,
      total |-> p.retries,
      redirect |-> BoolV(FALSE),
      backoff_factor |-> p.backoff_factor,
      status_forcelist |-> p.retry_status_code_list,
      allowed_methods |-> p.retry_method_list,
      respect_retry_after_header |-> p.respect_retry_headers ]

NoRequest == [url |-> <<"", "">>, locations |-> << >>, outcome |-> "none"]

----------------------------------------------------------------------------
(* Construction.  Each operator yields the object state its __init__ ends  *)
(* in, for valid arguments a (a record shaped like SESSION_DEFAULTS).      *)

\* restsession/session.py RestSession.__init__
session_init(a) ==
    LET basic == Truthy(a.username) /\ Truthy(a.password)
        \* self.auth = (self.username, self.password), through the auth setter
        p1 == IF basic THEN [a EXCEPT !.auth = TupleV(<<a.username, a.password>>)]
              ELSE a
        http_auth == IF basic THEN p1.auth
                     ELSE IF Truthy(a.auth) THEN a.auth ELSE NoneV
        \* self.redirect_header_hook = remove_custom_auth_header_on_redirect(...)
        p2 == [p1 EXCEPT !.redirect_header_hook = <<"redirect_header_hook">>]
        h2 == Concatenated(p2)
        \* self.request_exception_hook = default_request_exception_hook
        p3 == [p2 EXCEPT !.request_exception_hook = <<"default_request_exception_hook">>]
        h3 == Concatenated(p3)
    IN  [ params |-> p3,
          adapters |-> [m \in Mounted |-> NewAdapter(a)],
          http |-> [ hooks |-> h3,
                     headers |-> RequestsDefaultHeaders,
                     auth |-> http_auth,
                     base_url |-> a.base_url,
                     verify |-> a.tls_verify,
                     max_redirects |-> a.max_redirects ],
          closure_keys |-> Keys(a.auth_headers.val),
          \* self.max_reauth = 3
          max_reauth_attr |-> IntV(3) ]

\* restsession/newsession.py RestSession.__init__ (base_url is its one argument)
newsession_init(a) ==
    LET p0 == [SESSION_DEFAULTS EXCEPT !.base_url = a.base_url]
        p1 == [p0 EXCEPT !.redirect_header_hook = <<"redirect_header_hook">>,
                         !.request_exception_hook = <<"default_request_exception_hook">>]
    IN  [ params |-> p1,
          adapters |-> [m \in Mounted |-> NewAdapter(p1)],
          \* hooks is the requests attribute; the others are the class's properties
          http |-> [ hooks |-> << >>,
                     headers |-> p1.headers,
                     auth |-> p1.auth,
                     base_url |-> p1.base_url,
                     verify |-> p1.tls_verify,
                     max_redirects |-> p1.max_redirects ],
          closure_keys |-> Keys(p1.auth_headers.val),
          max_reauth_attr |-> p1.max_reauth ]

\* src/restsession/models.py SessionParamModel(): the bare parameter record
model_init(a) ==
    [ params |-> SESSION_DEFAULTS,
      adapters |-> [m \in Mounted |-> NewAdapter(SESSION_DEFAULTS)],
      http |-> [ hooks |-> << >>,
                 headers |-> RequestsDefaultHeaders,
                 auth |-> NoneV,
                 base_url |-> NoneV,
                 verify |-> BoolV(TRUE),
                 max_redirects |-> NoneV ],
      closure_keys |-> {},
      max_reauth_attr |-> SESSION_DEFAULTS.max_reauth ]

Construct(r, a) ==
    CASE r = "session" -> session_init(a)
      [] r = "newsession" -> newsession_init(a)
      [] OTHER -> model_init(a)

\* the classes whose metaclass is Singleton (restsession/session_singleton.py)
SingletonClasses == {"RestSessionSingleton"}

\* every class a cache can hold: a subclass of RestSessionSingleton, and a
\* class with the metaclass that does not derive from it (the tests' DummySingleton)
CacheClasses == SingletonClasses \cup {"SubSingleton", "DummySingleton"}

\* RestSessionSingleton is in the method resolution order of cls: the class
\* inherits its __exit__, and an attribute of RestSessionSingleton is found
\* on cls before the metaclass's
Family(cls) == cls \in {"RestSessionSingleton", "SubSingleton"}

\* src/restsession/metaclass.py: Singleton._instances = {} (0: no entry).  own is
\* the attribute _instances of the class RestSessionSingleton itself, which exists
\* once RestSessionSingleton.__exit__ has assigned it
NoInstances ==
    [ meta |-> [c \in CacheClasses |-> 0],
      own_set |-> FALSE,
      own |-> [c \in CacheClasses |-> 0] ]

\* the fields of an object as the constructor of revision r leaves them
Fresh(r, a) ==
    LET o == Construct(r, a)
    IN  [ ctor |-> a, params |-> o.params, adapters |-> o.adapters, http |-> o.http,
          closure_keys |-> o.closure_keys, max_reauth_attr |-> o.max_reauth_attr,
          max_reauth_given |-> a.max_reauth, reauth_count |-> 0, auth_calls |-> 0 ]

\* no thread has called anything yet
Threads == 1..MaxThreads
NoThreads ==
    [t \in Threads |-> [pc |-> "idle", cls |-> "", args |-> NoneV, instance |-> 0,
                        returned |-> 0]]

\* the state after RestSession(**a) of revision r, with n operations to explore
InitWith(r, a, n) ==
    LET o == Construct(r, a)
    IN  /\ rev = r
        /\ ctor = a
        /\ params = o.params
        /\ adapters = o.adapters
        /\ http = o.http
        /\ closure_keys = o.closure_keys
        /\ max_reauth_attr = o.max_reauth_attr
        /\ max_reauth_given = a.max_reauth
        /\ reauth_count = 0
        /\ auth_calls = 0
        /\ req = NoRequest
        /\ wire = << >>
        /\ instances = NoInstances
        /\ heap = <<[cls |-> "RestSession", closed |-> FALSE, fields |-> Fresh(r, a)]>>
        /\ self = 1
        /\ threads = NoThreads
        /\ last = [op |-> "__init__", arg |-> NoneV, raised |-> "none"]
        /\ ops = n

\* bookkeeping of one operation of the caller; it is no step of a thread
Did(op, arg, raised) ==
    /\ ops > 0
    /\ last' = [op |-> op, arg |-> arg, raised |-> raised]
    /\ ops' = ops - 1
    /\ UNCHANGED threads

----------------------------------------------------------------------------
(* restsession/session.py: the hook pipeline of RestSession                *)

\* what no hook operation touches
HookFrame == UNCHANGED <<rev, ctor, adapters, reauth_count, max_reauth_attr,
                         max_reauth_given, auth_calls, req, wire, instances, heap,
                         self>>

session_redirect_header_hook(hook) ==
    LET h == AsList(hook)
        r == HttpSessionArguments("redirect_header_hook", h)
    IN  /\ rev = "session"
        /\ IF r.ok
           THEN /\ params' = [params EXCEPT !.redirect_header_hook = HookNames(h)]
                /\ http' = [http EXCEPT !.hooks = Concatenated(params')]
                /\ Did("redirect_header_hook", hook, "none")
           ELSE /\ UNCHANGED <<params, http>>
                /\ Did("redirect_header_hook", hook, "ValidationError")
        /\ UNCHANGED closure_keys
        /\ HookFrame

session_request_exception_hook(hook) ==
    LET h == AsList(hook)
        r == HttpSessionArguments("request_exception_hook", h)
    IN  /\ rev = "session"
        /\ IF r.ok
           THEN /\ params' = [params EXCEPT !.request_exception_hook = HookNames(h)]
                /\ http' = [http EXCEPT !.hooks = Concatenated(params')]
                /\ Did("request_exception_hook", hook, "none")
           ELSE /\ UNCHANGED <<params, http>>
                /\ Did("request_exception_hook", hook, "ValidationError")
        /\ UNCHANGED closure_keys
        /\ HookFrame

\* the setter with "=" in place of "+": the given hooks replace the segment
session_response_hooks_replaces(hooks) ==
    LET h == AsList(hooks)
        r == HttpSessionArguments("response_hooks", h)
    IN  /\ rev = "session"
        /\ r.ok => Len(params.response_hooks) + Len(h.val) <= MaxHooks
        /\ IF r.ok
           THEN /\ params' = [params EXCEPT !.response_hooks = HookNames(h)]
                /\ http' = [http EXCEPT !.hooks = Concatenated(params')]
                /\ Did("response_hooks", hooks, "none")
           ELSE /\ UNCHANGED <<params, http>>
                /\ Did("response_hooks", hooks, "ValidationError")
        /\ UNCHANGED closure_keys
        /\ HookFrame

session_response_hooks(hooks) ==
    LET h == AsList(hooks)
        r == HttpSessionArguments("response_hooks", h)
    IN  /\ rev = "session"
        /\ r.ok => Len(params.response_hooks) + Len(h.val) <= MaxHooks
        /\ IF r.ok
           THEN /\ params' = [params EXCEPT
                                !.response_hooks = params.response_hooks \o HookNames(h)]
                /\ http' = [http EXCEPT !.hooks = Concatenated(params')]
                /\ Did("response_hooks", hooks, "none")
           ELSE /\ UNCHANGED <<params, http>>
                /\ Did("response_hooks", hooks, "ValidationError")
        /\ UNCHANGED closure_keys
        /\ HookFrame

session_clear_response_hooks ==
    /\ rev = "session"
    /\ params' = [params EXCEPT !.response_hooks = << >>]
    /\ http' = [http EXCEPT !.hooks = << >>]
    /\ Did("clear_response_hooks", NoneV, "none")
    /\ UNCHANGED closure_keys
    /\ HookFrame

session_auth_headers(headers) ==
    LET r == HttpSessionArguments("auth_headers", headers)
        p1 == [params EXCEPT !.auth_headers = r.val]
        \* self.redirect_header_hook = remove_custom_auth_header_on_redirect(headers.keys())
        p2 == [p1 EXCEPT !.redirect_header_hook = <<"redirect_header_hook">>]
    IN  /\ rev = "session"
        /\ CASE ~r.ok ->
                  /\ UNCHANGED <<params, http, closure_keys>>
                  /\ Did("auth_headers", headers, "ValidationError")
             [] r.ok /\ headers.ty = "none" ->
                  \* None passes Optional[dict]; headers.keys() then fails
                  /\ params' = p1
                  /\ http' = [http EXCEPT !.headers = p1.auth_headers]
                  /\ UNCHANGED closure_keys
                  /\ Did("auth_headers", headers, "AttributeError")
             [] OTHER ->
                  /\ params' = p2
                  /\ http' = [http EXCEPT !.headers = p1.auth_headers,
                                          !.hooks = Concatenated(p2)]
                  /\ closure_keys' = Keys(headers.val)
                  /\ Did("auth_headers", headers, "none")
        /\ HookFrame

----------------------------------------------------------------------------
(* restsession/newsession.py: the hook pipeline of RestSession             *)

newsession_redirect_header_hook(hook) ==
    LET h == AsList(hook)
        r == SessionParamModel_newmodels("redirect_header_hook", h)
    IN  /\ rev = "newsession"
        /\ IF r.ok
           THEN /\ params' = [params EXCEPT !.redirect_header_hook = HookNames(h)]
                /\ http' = [http EXCEPT !.hooks = ListOfLists(params')]
                /\ Did("redirect_header_hook", hook, "none")
           ELSE /\ UNCHANGED <<params, http>>
                /\ Did("redirect_header_hook", hook, "InvalidParameterError")
        /\ UNCHANGED closure_keys
        /\ HookFrame

newsession_request_exception_hook(hook) ==
    LET h == AsList(hook)
        r == SessionParamModel_newmodels("request_exception_hook", h)
    IN  /\ rev = "newsession"
        /\ IF r.ok
           THEN /\ params' = [params EXCEPT !.request_exception_hook = HookNames(h)]
                /\ http' = [http EXCEPT !.hooks = Concatenated(params')]
                /\ Did("request_exception_hook", hook, "none")
           ELSE /\ UNCHANGED <<params, http>>
                /\ Did("request_exception_hook", hook, "InvalidParameterError")
        /\ UNCHANGED closure_keys
        /\ HookFrame

newsession_response_hooks(hooks) ==
    LET h == AsList(hooks)
        r == SessionParamModel_newmodels("response_hooks", h)
    IN  /\ rev = "newsession"
        /\ r.ok => Len(params.response_hooks) + Len(h.val) <= MaxHooks
        /\ IF r.ok
           THEN /\ params' = [params EXCEPT
                                !.response_hooks = params.response_hooks \o HookNames(h)]
                /\ http' = [http EXCEPT !.hooks = Concatenated(params')]
                /\ Did("response_hooks", hooks, "none")
           ELSE /\ UNCHANGED <<params, http>>
                /\ Did("response_hooks", hooks, "InvalidParameterError")
        /\ UNCHANGED closure_keys
        /\ HookFrame

newsession_clear_response_hooks ==
    /\ rev = "newsession"
    /\ params' = [params EXCEPT !.response_hooks = << >>]
    /\ http' = [http EXCEPT !.hooks = << >>]
    /\ Did("clear_response_hooks", NoneV, "none")
    /\ UNCHANGED closure_keys
    /\ HookFrame

newsession_auth_headers(headers) ==
    LET r == SessionParamModel_newmodels("auth_headers", headers)
        p1 == [params EXCEPT !.auth_headers = r.val]
        \* self.headers = self._session_params.auth_headers, through the headers setter
        rh == SessionParamModel_newmodels("headers", r.val)
        p2 == [p1 EXCEPT !.headers = rh.val]
        \* self.redirect_header_hook = remove_custom_auth_header_on_redirect(...)
        p3 == [p2 EXCEPT !.redirect_header_hook = <<"redirect_header_hook">>]
    IN  /\ rev = "newsession"
        /\ CASE ~r.ok ->
                  /\ UNCHANGED <<params, http, closure_keys>>
                  /\ Did("auth_headers", headers, "InvalidParameterError")
             [] r.ok /\ ~rh.ok ->
                  \* the headers setter raises, after auth_headers was stored
                  /\ params' = p1
                  /\ UNCHANGED <<http, closure_keys>>
                  /\ Did("auth_headers", headers, "InvalidParameterError")
             [] OTHER ->
                  /\ params' = p3
                  /\ http' = [http EXCEPT !.headers = p2.headers,
                                          !.hooks = ListOfLists(p3)]
                  /\ closure_keys' = Keys(headers.val)
                  /\ Did("auth_headers", headers, "none")
        /\ HookFrame

----------------------------------------------------------------------------
(* restsession/session.py: the property setters of RestSession.  Each      *)
(* validates with its validator class, stores the value, then pushes it    *)
(* into the transport.                                                     *)

\* for mounted_adapter in self.http.adapters: get_adapter(...).<attr> = v
PushToAdapters(attr, v) == [m \in Mounted |-> [adapters[m] EXCEPT ![attr] = v]]

\* what a property setter other than a hook setter leaves alone
SetterFrame == UNCHANGED <<rev, ctor, reauth_count, auth_calls, closure_keys, req, wire,
                           instances, heap, self>>

\* a setter that pushes its validated value into one attribute of every adapter
SessionAdapterSetter(field, attr, v) ==
    LET r == HttpSessionArguments(field, v)
    IN  /\ rev = "session"
        /\ IF r.ok
           THEN /\ params' = [params EXCEPT ![field] = r.val]
                /\ adapters' = PushToAdapters(attr, r.val)
                /\ Did(field, v, "none")
           ELSE /\ UNCHANGED <<params, adapters>>
                /\ Did(field, v, "ValidationError")
        /\ UNCHANGED <<http, max_reauth_attr, max_reauth_given>>
        /\ SetterFrame

session_timeout(v) == SessionAdapterSetter("timeout", "timeout", v)
session_retries(v) == SessionAdapterSetter("retries", "total", v)
session_max_redirect(v) == SessionAdapterSetter("max_redirects", "redirect", v)
session_backoff_factor(v) == SessionAdapterSetter("backoff_factor", "backoff_factor", v)
session_retry_status_code_list(v) ==
    SessionAdapterSetter("retry_status_code_list", "status_forcelist", v)
session_retry_method_list(v) ==
    SessionAdapterSetter("retry_method_list", "allowed_methods", v)
session_respect_retry_headers(v) ==
    SessionAdapterSetter("respect_retry_headers", "respect_retry_after_header", v)

\* a setter that pushes its validated value into one attribute of self.http
SessionHttpSetter(field, attr, v) ==
    LET r == HttpSessionArguments(field, v)
    IN  /\ rev = "session"
        /\ IF r.ok
           THEN /\ params' = [params EXCEPT ![field] = r.val]
                /\ http' = [http EXCEPT ![attr] = r.val]
                /\ Did(field, v, "none")
           ELSE /\ UNCHANGED <<params, http>>
                /\ Did(field, v, "ValidationError")
        /\ UNCHANGED <<adapters, max_reauth_attr, max_reauth_given>>
        /\ SetterFrame

session_base_url(v) == SessionHttpSetter("base_url", "base_url", v)
session_tls_verify(v) == SessionHttpSetter("tls_verify", "verify", v)
session_headers(v) == SessionHttpSetter("headers", "headers", v)

\* the auth setter: a tuple also fills username and password
SessionSetAuth(p, v) ==
    LET p1 == IF v.ty = "tuple"
              THEN [p EXCEPT !.username = v.val[1], !.password = v.val[2]]
              ELSE p
    IN  [p1 EXCEPT !.auth = v]

session_auth(v) ==
    LET r == HttpSessionArguments("auth", v)
    IN  /\ rev = "session"
        /\ IF r.ok
           THEN /\ params' = SessionSetAuth(params, r.val)
                /\ http' = [http EXCEPT !.auth = r.val]
                /\ Did("auth", v, "none")
           ELSE /\ UNCHANGED <<params, http>>
                /\ Did("auth", v, "ValidationError")
        /\ UNCHANGED <<adapters, max_reauth_attr, max_reauth_given>>
        /\ SetterFrame

\* update_basic_auth: only replaces a tuple that differs from (username, password)
update_basic_auth(p) ==
    LET t == TupleV(<<p.username, p.password>>)
    IN  IF Truthy(p.username) /\ Truthy(p.password) /\ p.auth.ty = "tuple" /\ p.auth # t
        THEN SessionSetAuth(p, t)
        ELSE p

SessionCredentialSetter(field, v) ==
    LET r == HttpSessionArguments(field, v)
        p1 == update_basic_auth([params EXCEPT ![field] = r.val])
    IN  /\ rev = "session"
        /\ IF r.ok
           THEN /\ params' = p1
                /\ http' = IF p1.auth # params.auth THEN [http EXCEPT !.auth = p1.auth]
                           ELSE http
                /\ Did(field, v, "none")
           ELSE /\ UNCHANGED <<params, http>>
                /\ Did(field, v, "ValidationError")
        /\ UNCHANGED <<adapters, max_reauth_attr, max_reauth_given>>
        /\ SetterFrame

session_username(v) == SessionCredentialSetter("username", v)
session_password(v) == SessionCredentialSetter("password", v)

\* max_reauth is a plain instance attribute of this class: nothing validates it
session_max_reauth(v) ==
    /\ rev = "session"
    /\ max_reauth_attr' = v
    /\ max_reauth_given' = v
    /\ Did("max_reauth", v, "none")
    /\ UNCHANGED <<params, adapters, http>>
    /\ SetterFrame

----------------------------------------------------------------------------
(* restsession/newsession.py: the property setters of RestSession.  Each   *)
(* assigns into the validating model and turns its ValidationError into    *)
(* InvalidParameterError; none of them touches the mounted adapters.       *)

NewsessionSetter(field, v) ==
    LET r == SessionParamModel_newmodels(field, v)
    IN  /\ rev = "newsession"
        /\ IF r.ok
           THEN /\ params' = [params EXCEPT ![field] = r.val]
                /\ Did(field, v, "none")
           ELSE /\ UNCHANGED params
                /\ Did(field, v, "InvalidParameterError")
        /\ UNCHANGED <<adapters, http, max_reauth_attr, max_reauth_given>>
        /\ SetterFrame

\* a property that requests itself reads from the session object
NewsessionTransportSetter(field, attr, v) ==
    LET r == SessionParamModel_newmodels(field, v)
    IN  /\ rev = "newsession"
        /\ IF r.ok
           THEN /\ params' = [params EXCEPT ![field] = r.val]
                /\ http' = [http EXCEPT ![attr] = r.val]
                /\ Did(field, v, "none")
           ELSE /\ UNCHANGED <<params, http>>
                /\ Did(field, v, "InvalidParameterError")
        /\ UNCHANGED <<adapters, max_reauth_attr, max_reauth_given>>
        /\ SetterFrame

newsession_timeout(v) == NewsessionSetter("timeout", v)
newsession_retries(v) == NewsessionSetter("retries", v)
newsession_max_redirects(v) == NewsessionTransportSetter("max_redirects", "max_redirects", v)
newsession_backoff_factor(v) == NewsessionSetter("backoff_factor", v)
newsession_retry_status_code_list(v) == NewsessionSetter("retry_status_code_list", v)
newsession_retry_method_list(v) == NewsessionSetter("retry_method_list", v)
newsession_respect_retry_headers(v) == NewsessionSetter("respect_retry_headers", v)
newsession_base_url(v) == NewsessionTransportSetter("base_url", "base_url", v)
newsession_verify(v) == NewsessionTransportSetter("tls_verify", "verify", v)
newsession_auth(v) == NewsessionTransportSetter("auth", "auth", v)
newsession_headers(v) == NewsessionTransportSetter("headers", "headers", v)

newsession_max_reauth(v) ==
    LET r == SessionParamModel_newmodels("max_reauth", v)
    IN  /\ rev = "newsession"
        /\ IF r.ok
           THEN /\ params' = [params EXCEPT !.max_reauth = r.val]
                /\ max_reauth_attr' = r.val
                /\ max_reauth_given' = r.val
                /\ Did("max_reauth", v, "none")
           ELSE /\ UNCHANGED <<params, max_reauth_attr, max_reauth_given>>
                /\ Did("max_reauth", v, "InvalidParameterError")
        /\ UNCHANGED <<adapters, http>>
        /\ SetterFrame

----------------------------------------------------------------------------
(* src/restsession/models.py: an assignment to a field of the latest       *)
(* SessionParamModel (validate_assignment=True).                           *)

model_setattr(field, v) ==
    LET r == SessionParamModel(field, v)
    IN  /\ rev = "model"
        /\ IF r.ok
           THEN /\ params' = [params EXCEPT ![field] = r.val]
                /\ Did(field, v, "none")
           ELSE /\ UNCHANGED params
                /\ Did(field, v, "ValidationError")
        /\ UNCHANGED <<adapters, http, max_reauth_attr, max_reauth_given>>
        /\ SetterFrame

----------------------------------------------------------------------------
(* reauth(), as both facades define it.                                    *)

\* hasattr(self.auth, "reauth")
HasReauth(a) == a.ty = "authbase" /\ a.val \in {"Reauth", "ReauthRaises"}

\* self.auth.reauth(): what the call of the authenticator raises.  The
\* authenticators of the tests fetch a token over the network; the one named
\* ReauthRaises is one whose fetch fails
auth_reauth(a) == IF a.val = "ReauthRaises" THEN "ConnectionError" ELSE "none"

ReauthFrame == UNCHANGED <<rev, ctor, params, adapters, http, max_reauth_attr,
                           max_reauth_given, closure_keys, req, wire, instances, heap,
                           self>>

\* reauth() with the two last statements exchanged: the authenticator is
\* called first, and the counter moves only when that call has returned
Reauth_counts_after(limit) ==
    CASE ~HasReauth(params.auth) ->
              /\ UNCHANGED <<reauth_count, auth_calls>>
              /\ Did("reauth", NoneV, "none")
      [] HasReauth(params.auth) /\ limit.ty # "int" ->
              /\ UNCHANGED <<reauth_count, auth_calls>>
              /\ Did("reauth", NoneV, "TypeError")
      [] HasReauth(params.auth) /\ limit.ty = "int" /\ reauth_count >= limit.val ->
              /\ UNCHANGED <<reauth_count, auth_calls>>
              /\ Did("reauth", NoneV, "RequestHTTPError")
      [] OTHER ->
              /\ reauth_count' = IF auth_reauth(params.auth) = "none"
                                 THEN reauth_count + 1 ELSE reauth_count
              /\ auth_calls' = auth_calls + 1
              /\ Did("reauth", NoneV, auth_reauth(params.auth))

\* the body of reauth(), reading the limit from self.max_reauth
Reauth(limit) ==
    CASE ~HasReauth(params.auth) ->
              \* the if has no else: the call returns None
              /\ UNCHANGED <<reauth_count, auth_calls>>
              /\ Did("reauth", NoneV, "none")
      [] HasReauth(params.auth) /\ limit.ty # "int" ->
              \* reauth_count >= a value that is no number
              /\ UNCHANGED <<reauth_count, auth_calls>>
              /\ Did("reauth", NoneV, "TypeError")
      [] HasReauth(params.auth) /\ limit.ty = "int" /\ reauth_count >= limit.val ->
              /\ UNCHANGED <<reauth_count, auth_calls>>
              /\ Did("reauth", NoneV, "RequestHTTPError")
      [] OTHER ->
              \* the counter moves before the authenticator is called
              /\ reauth_count' = reauth_count + 1
              /\ auth_calls' = auth_calls + 1
              /\ Did("reauth", NoneV, auth_reauth(params.auth))

session_reauth ==
    /\ rev = "session"
    /\ Reauth(max_reauth_attr)
    /\ ReauthFrame

newsession_reauth ==
    /\ rev = "newsession"
    /\ Reauth(params.max_reauth)
    /\ ReauthFrame

----------------------------------------------------------------------------
(* request(): the prepared request, the response hooks on each response,   *)
(* and the redirects requests follows.  A URL is <<scheme, netloc>>; the   *)
(* Location of a redirect is a URL, or Relative for a path on the same     *)
(* server.                                                                 *)

Origins == {<<"https", "a">>, <<"http", "a">>, <<"https", "b">>}
Relative == <<"", "">>
Locations == Origins \cup {Relative}

\* sequences over S of length at most n
RECURSIVE SeqsUpTo(_, _)
SeqsUpTo(S, n) ==
    IF n = 0 THEN {<< >>}
    ELSE LET shorter == SeqsUpTo(S, n - 1)
         IN  shorter \cup {Append(q, x) : q \in {t \in shorter : Len(t) = n - 1}, x \in S}

\* the header pairs of a headers value; merge_setting takes None as no headers
HeaderPairs(v) == IF v.ty \in {"dict", "dictany"} THEN v.val ELSE {}

\* Session.prepare_request: the session's headers, and basic auth from a tuple
PreparedHeaders ==
    HeaderPairs(http.headers)
        \cup (IF http.auth.ty = "tuple" THEN {<<"Authorization", "Basic">>} ELSE {})

\* default_hooks.py remove_custom_auth_header_on_redirect: the closure
\* redirect_header_hook, on a redirect response to the request sent to url
redirect_header_hook(keys, url, location, headers) ==
    IF keys # {} /\ url[2] # location[2]
    THEN {h \in headers : h[1] \notin keys}
    ELSE headers

\* dispatch_hook("response", ...): the hooks called on a redirect response
HasNested(hooks) == \E i \in DOMAIN hooks : hooks[i].nested
HasRedirectHook(hooks) ==
    \E i \in DOMAIN hooks : hooks[i].items = <<"redirect_header_hook">>
DispatchOnRedirect(url, location, headers) ==
    IF HasRedirectHook(http.hooks)
    THEN redirect_header_hook(closure_keys, url, location, headers)
    ELSE headers

\* requests: urljoin(url, location), should_strip_auth and rebuild_auth
Resolve(url, location) == IF location = Relative THEN url ELSE location
should_strip_auth(old, new) ==
    CASE old[2] # new[2] -> TRUE
      [] old[1] = "http" /\ new[1] = "https" -> FALSE
      [] OTHER -> old[1] # new[1]
rebuild_auth(headers, old, new) ==
    IF should_strip_auth(old, new) THEN {h \in headers : h[1] # "Authorization"}
    ELSE headers

\* Session.send and resolve_redirects: what goes on the wire, and the outcome
RECURSIVE Follow(_, _, _, _)
Follow(url, headers, locations, hops) ==
    LET sent == [url |-> url, headers |-> headers]
    IN  CASE HasNested(http.hooks) ->
                  \* a list in the hook list is called: 'list' object is not callable
                  [wire |-> <<sent>>, outcome |-> "TypeError"]
          [] ~HasNested(http.hooks) /\ locations = << >> ->
                  [wire |-> <<sent>>, outcome |-> "ok"]
          [] ~HasNested(http.hooks) /\ locations # << >>
                                    /\ hops >= http.max_redirects.val ->
                  [wire |-> <<sent>>, outcome |-> "TooManyRedirects"]
          [] OTHER ->
                  LET location == Head(locations)
                      target == Resolve(url, location)
                      kept == rebuild_auth(DispatchOnRedirect(url, location, headers),
                                           url, target)
                      rest == Follow(target, kept, Tail(locations), hops + 1)
                  IN  [wire |-> <<sent>> \o rest.wire, outcome |-> rest.outcome]

RequestFrame == UNCHANGED <<rev, ctor, params, adapters, http, reauth_count,
                            max_reauth_attr, max_reauth_given, auth_calls, closure_keys,
                            instances, heap, self>>

\* one request() call to url whose responses redirect through locations
Request(url, locations) ==
    LET r == Follow(url, PreparedHeaders, locations, 0)
    IN  /\ wire' = r.wire
        /\ req' = [url |-> url, locations |-> locations, outcome |-> r.outcome]
        /\ Did("request", NoneV, IF r.outcome = "ok" THEN "none" ELSE r.outcome)
        /\ RequestFrame

session_request(url, locations) == rev = "session" /\ Request(url, locations)
newsession_request(url, locations) == rev = "newsession" /\ Request(url, locations)

----------------------------------------------------------------------------
(* One request to a server that answers every attempt with the same        *)
(* status: the retry loop of the mounted adapter, then the response hooks. *)

\* the facade's methods and the HTTP method each one sends
Verbs == {"request", "get", "options", "head", "post", "put", "patch", "delete"}
MethodOf(verb) ==
    CASE verb = "get" -> "GET"
      [] verb = "options" -> "OPTIONS"
      [] verb = "head" -> "HEAD"
      [] verb = "post" -> "POST"
      [] verb = "put" -> "PUT"
      [] verb = "patch" -> "PATCH"
      [] OTHER -> "DELETE"

\* urllib3 Retry.is_retry of adapter a's max_retries (no Retry-After header)
is_retry(a, method, status) ==
    /\ StrV(method) \in Range(a.allowed_methods.val)
    /\ IntV(status) \in Range(a.status_forcelist.val)

\* urllib3 Retry.is_exhausted once total has been decremented k times: the
\* smallest of the counters that are neither None, False nor 0 is negative
is_exhausted(a, k) ==
    \/ a.total.val - k < 0
    \/ a.redirect.ty = "int" /\ a.redirect.val < 0

\* HTTPConnectionPool.urlopen as HTTPAdapter.send drives it: the requests that
\* reach the server, and a response or the RetryError of an exhausted Retry
RECURSIVE urlopen(_, _, _, _)
urlopen(a, method, status, k) ==
    IF ~is_retry(a, method, status) THEN [sent |-> k + 1, outcome |-> "response"]
    ELSE IF is_exhausted(a, k + 1) THEN [sent |-> k + 1, outcome |-> "RetryError"]
    ELSE urlopen(a, method, status, k + 1)

\* requests Response.raise_for_status
raise_for_status(status) == IF 400 <= status /\ status < 600 THEN "HTTPError" ELSE "none"

\* a hook that wraps whatever was raised in the generic request exception
default_request_exception_hook_generic(raised) ==
    IF raised = "none" THEN "none" ELSE "RequestException"

\* a hook that swallows whatever was raised
default_request_exception_hook_swallows(raised) == "none"

\* the base classes of the exception classes of requests, urllib3 and ssl
Bases(cls) ==
    CASE cls = "RequestException" -> {"OSError"}
      [] cls \in {"InvalidJSONError", "HTTPError", "ConnectionError", "Timeout",
                  "TooManyRedirects", "RetryError"} -> {"RequestException"}
      [] cls = "JSONDecodeError" -> {"InvalidJSONError", "ValueError"}
      [] cls \in {"ProxyError", "SSLError"} -> {"ConnectionError"}
      [] cls = "ConnectTimeout" -> {"ConnectionError", "Timeout"}
      [] cls = "ReadTimeout" -> {"Timeout"}
      [] cls \in {"MissingSchema", "InvalidURL"} -> {"RequestException", "ValueError"}
      [] cls = "ssl.SSLError" -> {"OSError"}
      [] cls \in {"urllib3.SSLError", "MaxRetryError"} -> {"urllib3.HTTPError"}
      [] OTHER -> {}

\* issubclass(cls, c)
RECURSIVE IsSubclass(_, _)
IsSubclass(cls, c) == cls = c \/ \E b \in Bases(cls) : IsSubclass(b, c)

\* the except clauses of default_request_exception_hook, in their order
ExceptClauses ==
    << [catch |-> {"TooManyRedirects"}, raise |-> "TooManyRedirects"],
       [catch |-> {"RetryError"}, raise |-> "RetryError"],
       [catch |-> {"SSLError", "ssl.SSLError", "urllib3.SSLError", "MaxRetryError"},
        raise |-> "SSLError"],
       [catch |-> {"Timeout"}, raise |-> "Timeout"],
       [catch |-> {"ConnectionError"}, raise |-> "ConnectionError"],
       [catch |-> {"HTTPError"}, raise |-> "HTTPError"],
       [catch |-> {"InvalidJSONError"}, raise |-> "InvalidJSONError"],
       [catch |-> {"MissingSchema"}, raise |-> "MissingSchema"],
       [catch |-> {"RequestException"}, raise |-> "RequestException"] >>

\* default_hooks.py default_request_exception_hook on a response whose
\* raise_for_status raises an instance of the class raised ("none": it
\* returns): what the first matching except clause raises; an exception no
\* clause matches propagates
default_request_exception_hook(raised) ==
    LET hits == {i \in DOMAIN ExceptClauses :
                    \E c \in ExceptClauses[i].catch : IsSubclass(raised, c)}
    IN  IF raised = "none" \/ hits = {} THEN raised
        ELSE ExceptClauses[CHOOSE i \in hits : \A k \in hits : i <= k].raise

\* requests dispatch_hook("response", ...) on the final response
DispatchOnResponse(status) ==
    CASE HasNested(http.hooks) -> "TypeError"
      [] ~HasNested(http.hooks)
           /\ \E i \in DOMAIN http.hooks :
                  http.hooks[i].items = <<"default_request_exception_hook">> ->
             default_request_exception_hook(raise_for_status(status))
      [] OTHER -> "none"

\* the timeout TimeoutHTTPAdapter.send hands to the transport: session.py's
\* request() replaces the caller's by self.timeout, the other methods and the
\* requests.Session methods newsession.py inherits pass the caller's on
TimeoutUsed(verb, scheme, timeout_kw) ==
    LET passed == IF rev = "session" /\ verb = "request" THEN params.timeout
                  ELSE timeout_kw
    IN  IF passed.ty = "none" THEN adapters[scheme].timeout ELSE passed

\* one call of a facade method: verb(url), the server answering status
Send(verb, method, url, status, timeout_kw) ==
    LET scheme == url[1] \o "://"
        r == urlopen(adapters[scheme], method, status, 0)
        outcome == IF r.outcome = "RetryError" THEN "RetryError"
                   ELSE DispatchOnResponse(status)
    IN  /\ verb \in Verbs
        /\ verb # "request" => method = MethodOf(verb)
        /\ wire' = [i \in 1..r.sent |-> [url |-> url, headers |-> PreparedHeaders]]
        /\ req' = [url |-> url, locations |-> << >>,
                   outcome |-> IF outcome = "none" THEN "ok" ELSE outcome,
                   verb |-> verb, method |-> method, status |-> status,
                   timeout_kw |-> timeout_kw,
                   timeout |-> TimeoutUsed(verb, scheme, timeout_kw)]
        /\ Did("send", NoneV, outcome)
        /\ RequestFrame

session_send(verb, method, url, status, timeout_kw) ==
    rev = "session" /\ Send(verb, method, url, status, timeout_kw)
newsession_send(verb, method, url, status, timeout_kw) ==
    rev = "newsession" /\ Send(verb, method, url, status, timeout_kw)

----------------------------------------------------------------------------
(* The URL a request is sent to.  Both facades leave it to requests_toolbelt *)
(* BaseUrlSession: create_url is urljoin(self.base_url, url).  A path is a   *)
(* sequence of "/" and names, like the path of a base URL.                   *)

\* the index of the last "/" of u (0: none)
LastSlash(u) ==
    LET at == {i \in DOMAIN u : u[i] = "/"}
    IN  IF at = {} THEN 0 ELSE CHOOSE i \in at : \A k \in at : k <= i

\* urllib.parse.urljoin(base, path) for a path without scheme and host
urljoin(base, path) ==
    CASE path = << >> -> base
      [] path # << >> /\ path[1] = "/" -> <<base[1]>> \o path
      [] OTHER -> IF LastSlash(base) = 0 THEN <<base[1], "/">> \o path
                  ELSE SubSeq(base, 1, LastSlash(base)) \o path

\* BaseUrlSession.create_url
create_url(path) ==
    IF http.base_url.ty = "url" THEN urljoin(http.base_url.val, path) ELSE path

\* request(method, path): the URL the request is prepared for
RequestPath(path) ==
    /\ req' = [url |-> <<"", "">>, locations |-> << >>, outcome |-> "ok",
               path |-> path, effective |-> create_url(path)]
    /\ Did("create_url", NoneV, "none")
    /\ RequestFrame
    /\ UNCHANGED wire

session_create_url(path) == rev = "session" /\ RequestPath(path)
newsession_create_url(path) == rev = "newsession" /\ RequestPath(path)

----------------------------------------------------------------------------
(* Construction and context-manager exit: type.__call__ for RestSession,   *)
(* Singleton.__call__ for RestSessionSingleton.                            *)

\* the fields of the object the caller holds
Fields ==
    [ ctor |-> ctor, params |-> params, adapters |-> adapters, http |-> http,
      closure_keys |-> closure_keys, max_reauth_attr |-> max_reauth_attr,
      max_reauth_given |-> max_reauth_given, reauth_count |-> reauth_count,
      auth_calls |-> auth_calls ]

\* every object with its current fields
Saved == [heap EXCEPT ![self].fields = Fields]

\* the caller now holds object i of the objects h
Hold(h, i) ==
    /\ heap' = h
    /\ self' = i
    /\ ctor' = h[i].fields.ctor
    /\ params' = h[i].fields.params
    /\ adapters' = h[i].fields.adapters
    /\ http' = h[i].fields.http
    /\ closure_keys' = h[i].fields.closure_keys
    /\ max_reauth_attr' = h[i].fields.max_reauth_attr
    /\ max_reauth_given' = h[i].fields.max_reauth_given
    /\ reauth_count' = h[i].fields.reauth_count
    /\ auth_calls' = h[i].fields.auth_calls

\* the caller keeps the object it holds
Keep == UNCHANGED <<heap, self, ctor, params, adapters, http, closure_keys,
                    max_reauth_attr, max_reauth_given, reauth_count, auth_calls>>

\* the keyword arguments of session.py's __init__ that the model validates
CtorFields ==
    {"headers", "auth_headers", "timeout", "retries", "max_redirects", "backoff_factor",
     "retry_status_code_list", "retry_method_list", "respect_retry_headers", "base_url",
     "tls_verify", "username", "password", "auth", "max_reauth"}

\* session.py: HttpSessionArguments(**locals()); newsession.py:
\* SessionParamModel.model_validate(locals()), base_url being the one argument
ValidArguments(r, a) ==
    IF r = "session" THEN \A f \in CtorFields : HttpSessionArguments(f, a[f]).ok
    ELSE SessionParamModel_newmodels("base_url", a.base_url).ok

\* newsession.py: __init__(self, base_url=None) takes no other keyword
UnexpectedKeyword(r, a) ==
    r = "newsession" /\ \E f \in CtorFields \ {"base_url"} : a[f] # SESSION_DEFAULTS[f]

\* what the construction raises: session.py lets the pydantic error through,
\* newsession.py wraps it
InitRaises(r, a) ==
    CASE UnexpectedKeyword(r, a) -> "TypeError"
      [] ValidArguments(r, a) -> "none"
      [] r = "session" -> "ValidationError"
      [] OTHER -> "InitializationError"

Kwargs(a) == [ty |-> "kwargs", val |-> a]

\* type.__call__(cls, **a): a new object, then its __init__
New(cls, a) == [cls |-> cls, closed |-> FALSE, fields |-> Fresh(rev, a)]

\* a constructor that finds _session_params on the class and keeps it: the
\* new object starts from the parameters of the object made before it
RestSession_call_shared(a) ==
    /\ IF InitRaises(rev, a) = "none"
       THEN /\ Len(heap) < MaxObjects
            /\ Hold(Append(Saved, [cls |-> "RestSession", closed |-> FALSE,
                                   fields |-> [Fresh(rev, a) EXCEPT !.params = params]]),
                    Len(heap) + 1)
            /\ Did("RestSession", Kwargs(a), "none")
       ELSE /\ Keep
            /\ Did("RestSession", Kwargs(a), InitRaises(rev, a))
    /\ UNCHANGED <<rev, instances, req, wire>>

\* RestSession(**a)
RestSession_call(a) ==
    /\ IF InitRaises(rev, a) = "none"
       THEN /\ Len(heap) < MaxObjects
            /\ Hold(Append(Saved, New("RestSession", a)), Len(heap) + 1)
            /\ Did("RestSession", Kwargs(a), "none")
       ELSE /\ Keep
            /\ Did("RestSession", Kwargs(a), InitRaises(rev, a))
    /\ UNCHANGED <<rev, instances, req, wire>>

\* cls._instances: the attribute of the class where it exists, else the metaclass's
Lookup == IF instances.own_set THEN instances.own ELSE instances.meta

\* a metaclass that never finds the class in the cache
InCache_never(cls) == FALSE

\* cls._instances as the class cls finds it
CacheOf(cls) == IF Family(cls) THEN Lookup ELSE instances.meta

\* cls in cls._instances
InCache(cls) == CacheOf(cls)[cls] # 0

\* cls._instances[cls] = instance
Store(cls, i) ==
    IF Family(cls) /\ instances.own_set THEN [instances EXCEPT !.own[cls] = i]
    ELSE [instances EXCEPT !.meta[cls] = i]

\* a metaclass that stores the object before its constructor has finished:
\* the cache keeps the half-built object of a construction that raised
Singleton_call_stores_first(cls, a) ==
    /\ rev = "session"
    /\ IF ~InCache(cls)
       THEN IF InitRaises(rev, a) = "none"
            THEN /\ Len(heap) < MaxObjects
                 /\ Hold(Append(Saved, New(cls, a)), Len(heap) + 1)
                 /\ instances' = Store(cls, Len(heap) + 1)
                 /\ Did(cls, Kwargs(a), "none")
            ELSE /\ Len(heap) < MaxObjects
                 /\ Hold(Append(Saved, New(cls, SESSION_DEFAULTS)), self)
                 /\ instances' = Store(cls, Len(heap) + 1)
                 /\ Did(cls, Kwargs(a), InitRaises(rev, a))
       ELSE /\ Hold(Saved, CacheOf(cls)[cls])
            /\ UNCHANGED instances
            /\ Did(cls, Kwargs(a), "none")
    /\ UNCHANGED <<rev, req, wire>>

\* Singleton.__call__(cls, **a)
Singleton_call(cls, a) ==
    /\ rev = "session"
    /\ IF ~InCache(cls)
       THEN IF InitRaises(rev, a) = "none"
            THEN /\ Len(heap) < MaxObjects
                 /\ Hold(Append(Saved, New(cls, a)), Len(heap) + 1)
                 /\ instances' = Store(cls, Len(heap) + 1)
                 /\ Did(cls, Kwargs(a), "none")
            ELSE /\ Keep
                 /\ UNCHANGED instances
                 /\ Did(cls, Kwargs(a), InitRaises(rev, a))
       ELSE /\ Hold(Saved, CacheOf(cls)[cls])
            /\ UNCHANGED instances
            /\ Did(cls, Kwargs(a), "none")
    /\ UNCHANGED <<rev, req, wire>>

\* RestSession.__exit__ of object i: self.http.close()
RestSession_exit(i) ==
    /\ heap[i].cls = "RestSession"
    /\ heap' = [heap EXCEPT ![i].closed = TRUE]
    /\ Did("__exit__", IntV(i), "none")
    /\ UNCHANGED <<rev, ctor, params, adapters, http, reauth_count, max_reauth_attr,
                   max_reauth_given, auth_calls, closure_keys, req, wire, instances,
                   self>>

\* an exit that closes the transport and leaves the cache alone
RestSessionSingleton_exit_keeps(i) ==
    /\ Family(heap[i].cls)
    /\ heap' = [heap EXCEPT ![i].closed = TRUE]
    /\ Did("__exit__", IntV(i), "none")
    /\ UNCHANGED <<rev, ctor, params, adapters, http, reauth_count, max_reauth_attr,
                   max_reauth_given, auth_calls, closure_keys, req, wire, instances,
                   self>>

\* the two statements of RestSessionSingleton.__exit__ on object i
RestSessionSingleton_exit_body(i) ==
    /\ Family(heap[i].cls)
    /\ heap' = [heap EXCEPT ![i].closed = TRUE]
    /\ instances' = [instances EXCEPT !.own_set = TRUE,
                                      !.own = [c \in CacheClasses |-> 0]]
    /\ UNCHANGED <<rev, ctor, params, adapters, http, reauth_count, max_reauth_attr,
                   max_reauth_given, auth_calls, closure_keys, req, wire, self>>

\* RestSessionSingleton.__exit__ of object i
RestSessionSingleton_exit(i) ==
    /\ RestSessionSingleton_exit_body(i)
    /\ Did("__exit__", IntV(i), "none")

----------------------------------------------------------------------------
(* Inputs of the hook operations, and the hook specifications.             *)

RedirectHookInputs ==
    {CallableV("r2"), ListV(<<CallableV("r2")>>), ListV(<< >>), StrV("No hook")}
ExceptionHookInputs ==
    {CallableV("e2"), ListV(<<CallableV("e2")>>), StrV("No hook")}
ResponseHookInputs ==
    {CallableV("h1"), CallableV("h2"), ListV(<<CallableV("h1"), CallableV("h2")>>),
     BoolV(TRUE)}
AuthHeadersInputs ==
    {DictV({}), DictV({<<"X-AUTH-TOKEN", "t1">>}), DictV({<<"X-AUTH-TOKEN", "t2">>}),
     DictAnyV({<<"X-AUTH-TOKEN", "31337">>}), IntV(31337), NoneV}

HookCtorArgs ==
    {[SESSION_DEFAULTS EXCEPT !.auth_headers = d] :
        d \in {DictV({}), DictV({<<"X-AUTH-TOKEN", "t1">>})}}

InitHooks ==
    \/ \E a \in HookCtorArgs : InitWith("session", a, MaxHookOps)
    \/ InitWith("newsession", SESSION_DEFAULTS, MaxHookOps)

NextHookAssign ==
    \/ \E h \in RedirectHookInputs : session_redirect_header_hook(h)
    \/ \E h \in ExceptionHookInputs : session_request_exception_hook(h)
    \/ \E h \in ResponseHookInputs : session_response_hooks(h)
    \/ \E d \in AuthHeadersInputs : session_auth_headers(d)
    \/ \E h \in RedirectHookInputs : newsession_redirect_header_hook(h)
    \/ \E h \in ExceptionHookInputs : newsession_request_exception_hook(h)
    \/ \E h \in ResponseHookInputs : newsession_response_hooks(h)
    \/ \E d \in AuthHeadersInputs : newsession_auth_headers(d)

SpecHookAssign == InitHooks /\ [][NextHookAssign]_vars

NextHooks ==
    \/ NextHookAssign
    \/ session_clear_response_hooks
    \/ newsession_clear_response_hooks

SpecHooks == InitHooks /\ [][NextHooks]_vars

\* replace_response_hooks(hook): the bulk "replace all" operation; the user
\* segment becomes [hook] and the transport's list is rebuilt around it
replace_response_hooks(hook) ==
    /\ rev \in {"session", "newsession"}
    /\ params' = [params EXCEPT !.response_hooks = <<hook.val>>]
    /\ http' = [http EXCEPT !.hooks = Concatenated(params')]
    /\ Did("replace_response_hooks", hook, "none")
    /\ UNCHANGED closure_keys
    /\ HookFrame

NextHookPipeline ==
    \/ NextHooks
    \/ \E h \in {CallableV("h1"), CallableV("h2")} : replace_response_hooks(h)

SpecHookPipeline == InitHooks /\ [][NextHookPipeline]_vars

----------------------------------------------------------------------------
(* Inputs of the property setters, and the parameter specification: one    *)
(* object of each revision, and up to MaxParamOps assignments to it.       *)

IntInputs == {IntV(0), IntV(2), IntV(-1), NumStr(2), StrV("string_value"), NoneV}
NumberInputs == {IntV(2), FloatV(25), IntV(-1), NumStr(2), StrV("string_value")}
BoolInputs == {BoolV(FALSE), BoolV(TRUE), IntV(30), StrV("Good question")}
StatusListInputs ==
    {ListV(<<IntV(500), IntV(503)>>), ListV(<< >>), ListV(<<IntV(429), IntV(200)>>),
     ListV(<<IntV(503), IntV(600)>>), ListV(<<IntV(306)>>), ListV(<<IntV(599)>>),
     ListV(<<IntV(503), StrV("string_value")>>), IntV(503)}
MethodListInputs ==
    {ListV(<<StrV("GET")>>), ListV(<<StrV("GET"), StrV("POST")>>), StrV("GET"),
     ListV(<<StrV("get")>>), ListV(<<IntV(1)>>)}
BaseUrlInputs ==
    {UrlV(<<"http://h">>), UrlV(<<"http://h", "/", "api">>),
     UrlV(<<"http://h", "/", "api", "/">>), StrV("not a url"), BoolV(FALSE), NoneV}
CredentialInputs == {StrV("user"), StrV("pw"), NoneV, IntV(1)}
AuthInputs ==
    {NoneV, TupleV(<<StrV("user"), StrV("pw")>>), AuthBaseV("Plain"), AuthBaseV("Reauth"),
     StrV("not_a_tuple"), TupleV(<<StrV("user")>>)}
HeadersInputs ==
    {DictV({<<"Accept", "text/plain">>}), DictV({}), DictAnyV({<<"Accept", "1">>}),
     StrV("not_a_dict"), NoneV}

ModelFields ==
    {"timeout", "retries", "max_redirects", "backoff_factor", "retry_status_code_list",
     "retry_method_list", "respect_retry_headers", "base_url", "tls_verify", "auth",
     "max_reauth", "headers"}

FieldInputs(field) ==
    CASE field \in {"retries", "max_redirects", "max_reauth"} -> IntInputs
      [] field \in {"timeout", "backoff_factor"} -> NumberInputs
      [] field \in {"respect_retry_headers", "tls_verify"} -> BoolInputs
      [] field = "retry_status_code_list" -> StatusListInputs
      [] field = "retry_method_list" -> MethodListInputs
      [] field = "base_url" -> BaseUrlInputs
      [] field = "auth" -> AuthInputs
      [] OTHER -> HeadersInputs

InitParams ==
    \/ InitWith("session", SESSION_DEFAULTS, MaxParamOps)
    \/ InitWith("newsession", SESSION_DEFAULTS, MaxParamOps)
    \/ InitWith("model", SESSION_DEFAULTS, MaxParamOps)

NextParams ==
    \/ \E v \in NumberInputs : session_timeout(v)
    \/ \E v \in IntInputs : session_retries(v)
    \/ \E v \in IntInputs : session_max_redirect(v)
    \/ \E v \in NumberInputs : session_backoff_factor(v)
    \/ \E v \in StatusListInputs : session_retry_status_code_list(v)
    \/ \E v \in MethodListInputs : session_retry_method_list(v)
    \/ \E v \in BoolInputs : session_respect_retry_headers(v)
    \/ \E v \in BaseUrlInputs : session_base_url(v)
    \/ \E v \in BoolInputs : session_tls_verify(v)
    \/ \E v \in CredentialInputs : session_username(v)
    \/ \E v \in CredentialInputs : session_password(v)
    \/ \E v \in AuthInputs : session_auth(v)
    \/ \E v \in HeadersInputs : session_headers(v)
    \/ \E v \in AuthHeadersInputs : session_auth_headers(v)
    \/ \E v \in IntInputs : session_max_reauth(v)
    \/ \E v \in NumberInputs : newsession_timeout(v)
    \/ \E v \in IntInputs : newsession_retries(v)
    \/ \E v \in IntInputs : newsession_max_redirects(v)
    \/ \E v \in NumberInputs : newsession_backoff_factor(v)
    \/ \E v \in StatusListInputs : newsession_retry_status_code_list(v)
    \/ \E v \in MethodListInputs : newsession_retry_method_list(v)
    \/ \E v \in BoolInputs : newsession_respect_retry_headers(v)
    \/ \E v \in BaseUrlInputs : newsession_base_url(v)
    \/ \E v \in BoolInputs : newsession_verify(v)
    \/ \E v \in AuthInputs : newsession_auth(v)
    \/ \E v \in HeadersInputs : newsession_headers(v)
    \/ \E v \in AuthHeadersInputs : newsession_auth_headers(v)
    \/ \E v \in IntInputs : newsession_max_reauth(v)
    \/ \E f \in ModelFields : \E v \in FieldInputs(f) : model_setattr(f, v)

SpecParams == InitParams /\ [][NextParams]_vars

----------------------------------------------------------------------------
(* The hook pipeline.                                                      *)

\* C1: in every state reached from construction by assignments to
\* redirect_header_hook, response_hooks, request_exception_hook and
\* auth_headers, the transport's response-hook list is the flat list of one
\* redirect hook, then the user hooks in the order added, then one exception
\* hook, with no nested list and no segment missing.
C1_HookListIsFlatConcatenation ==
    /\ Len(params.redirect_header_hook) = 1
    /\ Len(params.request_exception_hook) = 1
    /\ http.hooks = Flat(params.redirect_header_hook \o params.response_hooks
                         \o params.request_exception_hook)

\* C2: after clear_response_hooks() the transport's response-hook list is
\* the redirect hook followed by the exception hook, two elements, both as
\* they were, and the user-hook segment is empty.
C2_ClearKeepsRedirectAndException ==
    last.op = "clear_response_hooks" =>
        /\ params.response_hooks = << >>
        /\ Len(http.hooks) = 2
        /\ http.hooks = Flat(params.redirect_header_hook \o params.request_exception_hook)

----------------------------------------------------------------------------
(* Validated assignment.                                                   *)

NumericFields == {"timeout", "retries", "max_redirects", "backoff_factor", "max_reauth"}

\* a negative number given to a numeric property
NegativeNumber(op, arg) == op \in NumericFields /\ arg.ty \in {"int", "float"} /\ arg.val < 0

\* C5: an assignment of an invalid value (one the validation refuses, or a
\* negative number) raises InvalidParameterError and leaves the stored
\* parameters, the mounted adapters and the transport exactly as they were.
C5_InvalidAssignmentRaisesAndKeepsState ==
    [][ (last'.raised # "none" \/ NegativeNumber(last'.op, last'.arg)) =>
            /\ last'.raised = "InvalidParameterError"
            /\ params' = params
            /\ adapters' = adapters
            /\ http' = http ]_vars

\* the validation the object of revision r applies to field f
Validate(r, f, v) ==
    CASE r = "session" -> HttpSessionArguments(f, v)
      [] r = "newsession" -> SessionParamModel_newmodels(f, v)
      [] OTHER -> SessionParamModel(f, v)

\* a URL string that ends with one "/" and not with two
EndsWithSingleSlash(u) ==
    /\ EndsWithSlash(u)
    /\ Len(u.val) > 1 => u.val[Len(u.val) - 1] # "/"

\* C6: after a valid value was assigned to a property, assigning the value
\* read back stores it unchanged, and a stored base_url ends with exactly
\* one trailing slash whether or not the assigned value had one.
C6_ReadBackIsNormalized ==
    (last.raised = "none" /\ last.op \in ModelFields) =>
        /\ Validate(rev, last.op, params[last.op]) = Ok(params[last.op])
        /\ (last.op = "base_url" /\ params.base_url.ty = "url") =>
               EndsWithSingleSlash(params.base_url)

\* a list of integers all of which are registered status codes in [300, 599]
RegisteredRetryCodes(arg) ==
    /\ arg.ty = "list"
    /\ \A i \in DOMAIN arg.val :
          /\ arg.val[i].ty = "int"
          /\ arg.val[i].val \in (300..599) \cap HTTPStatusValues

\* C7: assigning retry_status_code_list a list with an element outside
\* [300, 599] or not a registered status code raises and leaves the stored
\* list and the adapters' force-lists unchanged; assigning a list of
\* registered codes in [300, 599] succeeds and every mounted adapter's
\* status force-list equals that list.
C7_StatusCodeListAllOrNothing ==
    [][ (last'.op = "retry_status_code_list" /\ last'.arg.ty = "list") =>
            IF RegisteredRetryCodes(last'.arg)
            THEN /\ last'.raised = "none"
                 /\ params'.retry_status_code_list = last'.arg
                 /\ rev # "model" =>
                       \A m \in Mounted : adapters'[m].status_forcelist = last'.arg
            ELSE /\ last'.raised # "none"
                 /\ params'.retry_status_code_list = params.retry_status_code_list
                 /\ adapters' = adapters ]_vars

\* C8: in every reachable state of a session, the http:// and the https://
\* adapter hold the same timeout and retry policy, and these equal the
\* values stored in the parameter model.
C8_AdaptersEqualModel ==
    rev # "model" =>
        \A m \in Mounted :
            /\ adapters[m].timeout = params.timeout
            /\ adapters[m].total = params.retries
            /\ adapters[m].backoff_factor = params.backoff_factor
            /\ adapters[m].status_forcelist = params.retry_status_code_list
            /\ adapters[m].allowed_methods = params.retry_method_list
            /\ adapters[m].respect_retry_after_header = params.respect_retry_headers

----------------------------------------------------------------------------
(* The request specification: credentials are configured, then requests    *)
(* are made and redirected.                                                *)

FlowCtorArgs ==
    {[SESSION_DEFAULTS EXCEPT !.auth_headers = d, !.auth = a] :
        d \in {DictV({}), DictV({<<"X-AUTH-TOKEN", "t1">>})},
        a \in {NoneV, TupleV(<<StrV("user"), StrV("pw")>>)}}
FlowAuthHeaders == {DictV({}), DictV({<<"X-AUTH-TOKEN", "t1">>})}
FlowAuth == {NoneV, TupleV(<<StrV("user"), StrV("pw")>>)}
FlowHeaders == {DictV({<<"Accept", "text/plain">>})}
RedirectChains == SeqsUpTo(Locations, MaxHops)

InitFlow ==
    \/ \E a \in FlowCtorArgs : InitWith("session", a, MaxFlowOps)
    \/ InitWith("newsession", SESSION_DEFAULTS, MaxFlowOps)

NextFlow ==
    \/ \E d \in FlowAuthHeaders : session_auth_headers(d)
    \/ \E a \in FlowAuth : session_auth(a)
    \/ \E h \in FlowHeaders : session_headers(h)
    \/ \E u \in Origins : \E c \in RedirectChains : session_request(u, c)
    \/ \E d \in FlowAuthHeaders : newsession_auth_headers(d)
    \/ \E a \in FlowAuth : newsession_auth(a)
    \/ \E h \in FlowHeaders : newsession_headers(h)
    \/ \E u \in Origins : \E c \in RedirectChains : newsession_request(u, c)

SpecFlow == InitFlow /\ [][NextFlow]_vars

----------------------------------------------------------------------------
(* The reauthentication specification.                                     *)

ReauthCtorArgs ==
    {[SESSION_DEFAULTS EXCEPT !.auth = a, !.max_reauth = IntV(n)] :
        a \in {NoneV, AuthBaseV("Reauth")}, n \in {1, DefaultMaxReauth}}
ReauthLimits == {IntV(0), IntV(1), IntV(2), IntV(-1), StrV("string_value")}
ReauthAuth ==
    {NoneV, TupleV(<<StrV("user"), StrV("pw")>>), AuthBaseV("Plain"), AuthBaseV("Reauth")}

InitReauth ==
    \/ \E a \in ReauthCtorArgs : InitWith("session", a, MaxReauthOps)
    \/ InitWith("newsession", SESSION_DEFAULTS, MaxReauthOps)

NextReauth ==
    \/ session_reauth
    \/ \E v \in ReauthLimits : session_max_reauth(v)
    \/ \E a \in ReauthAuth : session_auth(a)
    \/ newsession_reauth
    \/ \E v \in ReauthLimits : newsession_max_reauth(v)
    \/ \E a \in ReauthAuth : newsession_auth(a)

SpecReauth == InitReauth /\ [][NextReauth]_vars

----------------------------------------------------------------------------
(* Credentials across redirects.                                           *)

\* the keys of the auth_headers the session is configured with
ConfiguredAuthKeys == Keys(HeaderPairs(params.auth_headers))

\* C3: for a request redirected to another origin, the first request
\* carries the configured auth_headers, the request re-sent to the other
\* origin carries none of their keys and loses no other header than those
\* (and the Authorization header requests itself drops), and no request of
\* the chain that goes to an origin other than the original one carries a
\* configured auth header.
C3_CrossOriginRedirectStripsAuthHeaders ==
    (last.op = "request" /\ \E i \in DOMAIN wire : wire[i].url # wire[1].url) =>
        /\ HeaderPairs(params.auth_headers) \subseteq wire[1].headers
        /\ \A i \in DOMAIN wire :
              wire[i].url # wire[1].url =>
                  Keys(wire[i].headers) \cap ConfiguredAuthKeys = {}
        /\ \A i \in 1..(Len(wire) - 1) :
              wire[i + 1].url # wire[i].url =>
                  /\ wire[i + 1].headers \subseteq wire[i].headers
                  /\ Keys(wire[i].headers \ wire[i + 1].headers)
                         \subseteq ConfiguredAuthKeys \cup {"Authorization"}

\* C4: for a redirect whose target has the origin of the request, the
\* re-sent request carries exactly the headers of the request before it:
\* the configured auth headers and Authorization are still there, with
\* their values.
C4_SameOriginRedirectKeepsHeaders ==
    last.op = "request" =>
        \A i \in 1..(Len(wire) - 1) :
            wire[i + 1].url = wire[i].url => wire[i + 1].headers = wire[i].headers

----------------------------------------------------------------------------
(* Reauthentication.                                                       *)

\* C9: with an authenticator that can reauth and max_reauth N, given at
\* construction or assigned later, a reauth() call made while fewer than N
\* calls have succeeded increments reauth_count and invokes auth.reauth();
\* the call after the Nth raises the max-reauth error and invokes nothing.
C9_ReauthBoundedByMaxReauth ==
    [][ (last'.op = "reauth" /\ ops' = ops - 1 /\ HasReauth(params.auth)
            /\ max_reauth_given.ty = "int") =>
            IF reauth_count < max_reauth_given.val
            THEN /\ last'.raised = "none"
                 /\ reauth_count' = reauth_count + 1
                 /\ auth_calls' = auth_calls + 1
            ELSE /\ last'.raised = "RequestHTTPError"
                 /\ reauth_count' = reauth_count
                 /\ auth_calls' = auth_calls ]_vars

\* C10: reauth() on a session whose auth is None, a (username, password)
\* tuple or an authenticator without reauth raises the max-reauth error;
\* no reauth() call returns normally without having invoked auth.reauth().
C10_ReauthNeverReturnsWithoutReauth ==
    [][ (last'.op = "reauth" /\ ops' = ops - 1) =>
            /\ ~HasReauth(params.auth) => last'.raised = "RequestHTTPError"
            /\ last'.raised = "none" => auth_calls' = auth_calls + 1 ]_vars

----------------------------------------------------------------------------
(* The object specification: sessions are constructed, configured and      *)
(* left through their context manager.                                     *)

ObjectCtorArgs ==
    {[SESSION_DEFAULTS EXCEPT !.timeout = t, !.base_url = b] :
        t \in {IntV(DefaultTimeout), IntV(7), StrV("short")},
        b \in {NoneV, UrlV(<<"http://h", "/">>), BoolV(FALSE)}}
ObjectTimeouts == {IntV(9)}
ObjectHooks == {ListV(<<CallableV("hook_a")>>)}

InitObjects ==
    \E r \in {"session", "newsession"} : InitWith(r, SESSION_DEFAULTS, MaxObjectOps)

NextObjects ==
    \/ \E a \in ObjectCtorArgs : RestSession_call(a)
    \/ \E c \in SingletonClasses : \E a \in ObjectCtorArgs : Singleton_call(c, a)
    \/ \E i \in DOMAIN heap : RestSession_exit(i)
    \/ \E i \in DOMAIN heap : RestSessionSingleton_exit(i)
    \/ \E v \in ObjectTimeouts : session_timeout(v)
    \/ \E h \in ObjectHooks : session_response_hooks(h)
    \/ \E v \in ObjectTimeouts : newsession_timeout(v)

SpecObjects == InitObjects /\ [][NextObjects]_vars

\* C11: a construction call on a singleton class that has a cached instance
\* returns that very object, whatever arguments are passed, and leaves the fields
\* of every object (parameters, hooks, adapters) and the cache as they were
C11_CachedConstructionReturnsSameObject ==
    [][\A c \in SingletonClasses :
          (last'.op = c /\ Lookup[c] # 0) =>
              /\ self' = Lookup[c]
              /\ last'.raised = "none"
              /\ Saved' = Saved
              /\ instances' = instances]_vars

\* a singleton construction returned the cached object although its arguments
\* differ from those the object was built with and its timeout was reassigned
C11_Witness ==
    /\ last.op \in SingletonClasses
    /\ last.raised = "none"
    /\ last.arg.val # ctor
    /\ params.timeout # ctor.timeout

\* the object of class c constructed last (0: none)
LatestOf(c) ==
    LET made == {i \in DOMAIN heap : heap[i].cls = c}
    IN  IF made = {} THEN 0 ELSE CHOOSE i \in made : \A j \in made : j <= i

\* C12: once the context manager of a singleton object has exited, the cache
\* holds no entry for its class; a singleton construction never returns an
\* object whose context manager has exited; and when the latest instance of the
\* class has exited, the construction returns a new object whose fields are
\* those the constructor gives it for the arguments of that call
C12_ExitEvictsAndNextConstructionIsFresh ==
    [][/\ (last'.op = "__exit__" /\ heap[last'.arg.val].cls \in SingletonClasses) =>
              Lookup'[heap[last'.arg.val].cls] = 0
       /\ (last'.op \in SingletonClasses /\ last'.raised = "none") =>
              /\ ~heap'[self'].closed
              /\ (LatestOf(last'.op) # 0 /\ heap[LatestOf(last'.op)].closed) =>
                     /\ self' \notin DOMAIN heap
                     /\ Fields' = Fresh(rev, last'.arg.val)]_vars

\* a singleton was constructed anew, with other arguments, after the context
\* manager of an earlier instance of its class had exited
C12_Witness ==
    /\ last.op \in SingletonClasses
    /\ last.raised = "none"
    /\ \E i \in DOMAIN heap :
          /\ i # self
          /\ heap[i].cls = last.op
          /\ heap[i].closed
          /\ heap[i].fields.ctor # last.arg.val
    /\ ctor = last.arg.val

----------------------------------------------------------------------------
(* The transport specification: the retry, redirect and timeout settings   *)
(* are assigned, and requests are made against a server that answers with  *)
(* a fixed status or with a chain of redirects.                            *)

TransportRetries == {IntV(0), IntV(2)}
TransportStatusLists == {ListV(<<IntV(503)>>), ListV(<<IntV(404), IntV(503)>>)}
TransportMethodLists == {ListV(<<StrV("GET")>>)}
TransportTimeouts == {IntV(9)}
TransportMaxRedirects == {IntV(0), IntV(1)}
ServerStatuses == {200, 404, 503}
RequestMethods == {"GET", "POST"}
TimeoutKeywords == {NoneV, IntV(1)}
TransportUrl == <<"https", "a">>

InitTransport ==
    \/ \E r \in {IntV(1), IntV(DefaultRetries)} :
          InitWith("session", [SESSION_DEFAULTS EXCEPT !.retries = r], MaxTransportOps)
    \/ InitWith("newsession", SESSION_DEFAULTS, MaxTransportOps)

NextTransport ==
    \/ \E v \in TransportRetries : session_retries(v)
    \/ \E v \in TransportStatusLists : session_retry_status_code_list(v)
    \/ \E v \in TransportMethodLists : session_retry_method_list(v)
    \/ \E v \in TransportTimeouts : session_timeout(v)
    \/ \E v \in TransportMaxRedirects : session_max_redirect(v)
    \/ \E verb \in Verbs, m \in RequestMethods, st \in ServerStatuses,
          t \in TimeoutKeywords : session_send(verb, m, TransportUrl, st, t)
    \/ \E c \in RedirectChains : session_request(TransportUrl, c)
    \/ \E v \in TransportRetries : newsession_retries(v)
    \/ \E v \in TransportStatusLists : newsession_retry_status_code_list(v)
    \/ \E v \in TransportMethodLists : newsession_retry_method_list(v)
    \/ \E v \in TransportTimeouts : newsession_timeout(v)
    \/ \E v \in TransportMaxRedirects : newsession_max_redirects(v)
    \/ \E verb \in Verbs, m \in RequestMethods, st \in ServerStatuses,
          t \in TimeoutKeywords : newsession_send(verb, m, TransportUrl, st, t)
    \/ \E c \in RedirectChains : newsession_request(TransportUrl, c)

SpecTransport == InitTransport /\ [][NextTransport]_vars

\* the request just made used a method of retry_method_list and was answered
\* with a status of retry_status_code_list
Retryable ==
    /\ StrV(req.method) \in Range(params.retry_method_list.val)
    /\ IntV(req.status) \in Range(params.retry_status_code_list.val)

\* C13: with retries = R, a request whose method is in retry_method_list, to a
\* server that always answers a status of retry_status_code_list, raises the
\* retry-exhausted error after exactly R + 1 requests have reached the server
C13_RetryExhaustedAfterRPlusOne ==
    (last.op = "send" /\ Retryable /\ params.retries.val >= 0) =>
        /\ last.raised = "RetryError"
        /\ Len(wire) = params.retries.val + 1

\* C14: a request answered with an error status that is not in
\* retry_status_code_list, or made with a method that is not in
\* retry_method_list, reaches the server exactly once and raises the generic
\* HTTP error, whatever retries is
C14_NotRetryableIsSentOnce ==
    (last.op = "send" /\ raise_for_status(req.status) # "none" /\ ~Retryable) =>
        /\ last.raised = "HTTPError"
        /\ Len(wire) = 1

\* C15: with max_redirects = N the value assigned last, a request that meets
\* more than N redirects raises too-many-redirects after exactly N + 1
\* requests, and one that meets at most N redirects returns the final response
C15_RedirectBoundIsLastAssigned ==
    (last.op = "request" /\ params.max_redirects.val >= 0) =>
        IF Len(req.locations) > params.max_redirects.val
        THEN /\ last.raised = "TooManyRedirects"
             /\ Len(wire) = params.max_redirects.val + 1
        ELSE /\ last.raised = "none"
             /\ Len(wire) = Len(req.locations) + 1

\* C18: request() and each of get, post, put, patch, delete, head and options
\* dispatch with the session's configured timeout, whatever timeout keyword
\* the caller supplies
C18_CallerTimeoutIsDiscarded ==
    last.op = "send" => req.timeout = params.timeout

----------------------------------------------------------------------------
(* The hook specification: default_request_exception_hook is called on a   *)
(* response.  The response is a requests Response with a status code, or   *)
(* one whose raise_for_status has been replaced to raise a given class.    *)

StatusCodes == {100, 200, 204, 301, 399, 400, 404, 499, 500, 503, 599}

\* the exception classes a replaced raise_for_status raises
ExceptionClasses ==
    {"TooManyRedirects", "RetryError", "SSLError", "ssl.SSLError", "urllib3.SSLError",
     "MaxRetryError", "Timeout", "ConnectTimeout", "ReadTimeout", "ConnectionError",
     "ProxyError", "HTTPError", "InvalidJSONError", "JSONDecodeError", "MissingSchema",
     "RequestException", "InvalidURL", "ValueError"}

Responses ==
    [ id : 1..MaxResponses, status_code : StatusCodes,
      raise_for_status : {"real"} \cup ExceptionClasses, returned : {0} ]

InitResponses ==
    LET f == Fresh("session", SESSION_DEFAULTS)
    IN  /\ rev = "session"
        /\ ctor = f.ctor
        /\ params = f.params
        /\ adapters = f.adapters
        /\ http = f.http
        /\ closure_keys = f.closure_keys
        /\ max_reauth_attr = f.max_reauth_attr
        /\ max_reauth_given = f.max_reauth_given
        /\ reauth_count = 0
        /\ auth_calls = 0
        /\ req \in Responses
        /\ wire = << >>
        /\ instances = NoInstances
        /\ heap = <<[cls |-> "RestSession", closed |-> FALSE, fields |-> f]>>
        /\ self = 1
        /\ threads = NoThreads
        /\ last = [op |-> "__init__", arg |-> NoneV, raised |-> "none"]
        /\ ops = 1

\* default_request_exception_hook(response) for the response in req
call_default_request_exception_hook ==
    LET raised == default_request_exception_hook(
                      IF req.raise_for_status = "real"
                      THEN raise_for_status(req.status_code)
                      ELSE req.raise_for_status)
    IN  /\ req.returned = 0
        /\ req' = [req EXCEPT !.returned = IF raised = "none" THEN req.id ELSE 0]
        /\ Did("default_request_exception_hook", NoneV, raised)
        /\ RequestFrame
        /\ UNCHANGED wire

NextResponses == call_default_request_exception_hook

SpecResponses == InitResponses /\ [][NextResponses]_vars

\* the failure category of an exception class: the requests exception class
\* that names it
CategoryOf(cls) ==
    CASE cls \in {"SSLError", "ssl.SSLError", "urllib3.SSLError"} -> "SSLError"
      [] cls \in {"Timeout", "ConnectTimeout", "ReadTimeout"} -> "Timeout"
      [] cls \in {"ConnectionError", "ProxyError"} -> "ConnectionError"
      [] cls \in {"InvalidJSONError", "JSONDecodeError"} -> "InvalidJSONError"
      [] cls \in {"RequestException", "InvalidURL"} -> "RequestException"
      [] OTHER -> cls

\* the exception classes of the nine failure categories
CategorizedClasses == ExceptionClasses \ {"MaxRetryError", "ValueError"}

C17_HookRaisesIffStatusFails ==
    (last.op = "default_request_exception_hook" /\ req.raise_for_status = "real") =>
        /\ (last.raised # "none") <=> (400 <= req.status_code /\ req.status_code <= 599)
        /\ last.raised = "none" => req.returned = req.id
        /\ last.raised # "none" => (last.raised = "HTTPError" /\ req.returned = 0)

\* the hook returned the second response, a 399, and (in another state) raised
\* for a 400
C17_Witness ==
    /\ last.op = "default_request_exception_hook"
    /\ req.raise_for_status = "real"
    /\ \/ req.status_code = 399 /\ req.id = 2 /\ req.returned = 2
       \/ req.status_code = 400 /\ last.raised = "HTTPError"

----------------------------------------------------------------------------
(* The URL specification: base_url is assigned and requests are made to    *)
(* paths relative to it.                                                   *)

UrlBases ==
    {UrlV(<<"http://h">>), UrlV(<<"http://h", "/">>), UrlV(<<"http://h", "/", "api">>),
     UrlV(<<"http://h", "/", "api", "/">>)}
UrlBaseInputs == UrlBases \cup {BoolV(FALSE)}
Paths == {<<"x">>, <<"x", "/", "y">>, <<"/", "x">>}

InitUrls ==
    \E r \in {"session", "newsession"} : \E b \in UrlBases \cup {NoneV} :
        InitWith(r, [SESSION_DEFAULTS EXCEPT !.base_url = b], MaxUrlOps)

NextUrls ==
    \/ \E b \in UrlBaseInputs : session_base_url(b)
    \/ \E p \in Paths : session_create_url(p)
    \/ \E b \in UrlBaseInputs : newsession_base_url(b)
    \/ \E p \in Paths : newsession_create_url(p)

SpecUrls == InitUrls /\ [][NextUrls]_vars

\* C19: with base_url B, given with or without a trailing slash, a request to a
\* relative path p that has no leading slash is sent to B, one "/", p.  (The
\* other half of the claim, paths with a leading slash under
\* always_relative_url, has no counterpart in the facades: neither reads that
\* parameter.)
C19_RelativePathJoinsUnderBaseUrl ==
    (last.op = "create_url" /\ params.base_url.ty = "url" /\ req.path[1] # "/") =>
        req.effective =
            (IF EndsWithSlash(params.base_url) THEN params.base_url.val
             ELSE Append(params.base_url.val, "/")) \o req.path

\* C20: a construction with an invalid argument (base_url = False, a timeout
\* that is no number) raises InitializationError and yields no session object
C20_InvalidConstructionRaisesInitializationError ==
    (/\ last.op \in {"RestSession"} \cup SingletonClasses
     /\ \E f \in {"timeout", "base_url"} : ~Validate(rev, f, last.arg.val[f]).ok) =>
        /\ last.raised = "InitializationError"
        /\ ctor # last.arg.val

----------------------------------------------------------------------------
(* Claims about closed sessions, checked under SpecObjects.                *)

\* C21: once the context manager of a session has exited, every property
\* assignment or hook mutation on that object is refused and leaves its
\* parameters, hook list and adapters as they were
C21_ClosedSessionIsFrozen ==
    [][(/\ heap[self].closed
        /\ self' = self
        /\ last'.op \notin {"RestSession", "__exit__"} \cup SingletonClasses) =>
           /\ last'.raised # "none"
           /\ Fields' = Fields]_vars

----------------------------------------------------------------------------
(* Claims about the parameters, checked under SpecParams.                  *)

\* C22: whenever auth is a (username, password) tuple, username and password
\* equal its two components and the transport's auth is the same tuple, also
\* after a later assignment of username or password, None and "" included
C22_BasicAuthTupleMatchesCredentials ==
    (rev \in {"session", "newsession"} /\ params.auth.ty = "tuple"
         /\ Len(params.auth.val) = 2) =>
        /\ params.username = params.auth.val[1]
        /\ params.password = params.auth.val[2]
        /\ http.auth = params.auth

\* the headers H with the entries A merged into them
Merged(H, A) == A \cup {h \in H : h[1] \notin Keys(A)}

\* C23: an assignment auth_headers = A on a session whose headers are H leaves
\* the headers, of the parameters and of the transport, with every entry of A
\* and every entry of H whose key is not in A
C23_AuthHeadersAreMergedIntoHeaders ==
    [][(last'.op = "auth_headers" /\ last'.raised = "none") =>
          LET A == HeaderPairs(last'.arg)
          IN  /\ Merged(HeaderPairs(http.headers), A) \subseteq HeaderPairs(http'.headers)
              /\ Merged(HeaderPairs(params.headers), A)
                     \subseteq HeaderPairs(params'.headers)]_vars

\* str.upper on the method names the inputs use
upper(s) == IF s = "get" THEN "GET" ELSE IF s = "post" THEN "POST" ELSE s

\* C24: assigning retry_method_list a single string s stores [upper(s)]; a
\* list of strings stores the upper-cased strings in order; a list with an
\* element that is not a string raises InvalidParameterError and leaves the
\* stored list as it was.
C24_RetryMethodListIsNormalised ==
    [][last'.op = "retry_method_list" =>
         LET v == last'.arg
             stored == params'.retry_method_list
         IN  CASE v.ty = "str" ->
                    /\ last'.raised = "none"
                    /\ stored = ListV(<<StrV(upper(v.val))>>)
               [] v.ty = "list" /\ \A i \in DOMAIN v.val : v.val[i].ty = "str" ->
                    /\ last'.raised = "none"
                    /\ stored = ListV([i \in DOMAIN v.val |-> StrV(upper(v.val[i].val))])
               [] v.ty = "list" ->
                    /\ last'.raised = "InvalidParameterError"
                    /\ stored = params.retry_method_list
               [] OTHER -> TRUE]_vars

-----------------------------------------------------------------------------
(* Claims about the user-hook segment, checked under SpecHookPipeline.     *)

\* s is a prefix of t
IsPrefix(s, t) == Len(s) <= Len(t) /\ SubSeq(t, 1, Len(s)) = s

-----------------------------------------------------------------------------
(* A request whose 401 response a user hook answers by reauth() and a      *)
(* re-send through the session.  The server is [first, then]: it answers   *)
(* the attempts with the statuses of first, and then with then for ever.   *)
(* Every call of the session below a hook is a nested call: Python raises  *)
(* RecursionError once MaxDepth calls are nested.                          *)

MaxDepth == 6
MaxReplayOps == 3

\* the status the server answers attempt n with
Answer(server, n) == IF n <= Len(server.first) THEN server.first[n] ELSE server.then

\* self.max_reauth as reauth() reads it
ReauthLimit == IF rev = "session" THEN max_reauth_attr ELSE params.max_reauth

\* reauth() called with reauth_count = count: what it raises, the count after
\* it, and whether it has called self.auth.reauth()
reauth_call(count) ==
    CASE ~HasReauth(params.auth) ->
              [raised |-> "none", count |-> count, called |-> 0]
      [] HasReauth(params.auth) /\ ReauthLimit.ty # "int" ->
              [raised |-> "TypeError", count |-> count, called |-> 0]
      [] HasReauth(params.auth) /\ ReauthLimit.ty = "int" /\ count >= ReauthLimit.val ->
              [raised |-> "RequestHTTPError", count |-> count, called |-> 0]
      [] OTHER -> [raised |-> auth_reauth(params.auth), count |-> count + 1,
                   called |-> 1]

\* Session.send of attempt st.sent + 1, and dispatch_hook("response", ...) from
\* hook i on, the hook being handed the response with the given status.  st
\* is the state the calls thread: requests sent, reauth_count, calls of
\* auth.reauth(), nesting depth, the calls of hooks so far, and what is raised
RECURSIVE session_send_hooked(_, _)
RECURSIVE dispatch_hook(_, _, _, _)
session_send_hooked(server, st) ==
    IF st.depth >= MaxDepth THEN [st EXCEPT !.raised = "RecursionError"]
    ELSE LET n == st.sent + 1
             r == dispatch_hook(server, 1, Answer(server, n),
                                [st EXCEPT !.sent = n, !.depth = @ + 1])
         IN  [r EXCEPT !.depth = st.depth]

dispatch_hook(server, i, status, st) ==
    IF HasNested(http.hooks) THEN [st EXCEPT !.raised = "TypeError"]
    ELSE IF i > Len(http.hooks) THEN [st EXCEPT !.status = status]
    ELSE
      LET hook == http.hooks[i].items[1]
          called == [st EXCEPT !.log = Append(@, <<hook, status>>)]
      IN  CASE hook = "auth_response_hook" /\ status = 401 ->
                  \* test_instance.reauth(); return test_instance.request(...)
                  LET a == reauth_call(called.count)
                      replay == session_send_hooked(server,
                                    [called EXCEPT !.count = a.count,
                                                   !.calls = @ + a.called])
                  IN  IF a.raised # "none"
                      THEN [called EXCEPT !.raised = a.raised, !.count = a.count,
                                          !.calls = @ + a.called]
                      ELSE IF replay.raised # "none" THEN replay
                      ELSE dispatch_hook(server, i + 1, replay.status, replay)
            [] hook = "default_request_exception_hook" ->
                  LET e == default_request_exception_hook(raise_for_status(status))
                  IN  IF e # "none" THEN [called EXCEPT !.raised = e]
                      ELSE dispatch_hook(server, i + 1, status, called)
            [] OTHER ->
                  \* a hook that returns None: the same response goes on
                  dispatch_hook(server, i + 1, status, called)

\* one get(url) of a session whose hooks may re-send; no status the server
\* uses is one the adapter retries
HookedGet(url, server) ==
    LET r == session_send_hooked(server,
                 [sent |-> 0, count |-> reauth_count, calls |-> auth_calls,
                  depth |-> 0, log |-> << >>, raised |-> "none", status |-> 0])
    IN  /\ \A s \in Range(server.first) \cup {server.then} :
               ~is_retry(adapters[url[1] \o "://"], "GET", s)
        /\ reauth_count' = r.count
        /\ auth_calls' = r.calls
        /\ wire' = [k \in 1..r.sent |-> [url |-> url, headers |-> PreparedHeaders]]
        /\ req' = [url |-> url, locations |-> << >>,
                   outcome |-> IF r.raised = "none" THEN "ok" ELSE r.raised,
                   server |-> server, status |-> r.status, log |-> r.log,
                   limit |-> ReauthLimit, before |-> reauth_count]
        /\ Did("hooked_get", NoneV, r.raised)
        /\ UNCHANGED <<rev, ctor, params, adapters, http, max_reauth_attr,
                       max_reauth_given, closure_keys, instances, heap, self>>

session_hooked_get(url, server) == rev = "session" /\ HookedGet(url, server)
newsession_hooked_get(url, server) == rev = "newsession" /\ HookedGet(url, server)

-----------------------------------------------------------------------------
(* The replay specification: one object of either revision, a user hook    *)
(* that re-authenticates and re-sends, and up to MaxReplayOps operations.  *)

Forever401 == [first |-> << >>, then |-> 401]
Once401 == [first |-> <<401>>, then |-> 200]
Servers ==
    {Forever401, Once401, [first |-> << >>, then |-> 200],
     [first |-> <<401, 401>>, then |-> 200], [first |-> <<401>>, then |-> 404]}
ReplayHookInputs == {CallableV("auth_response_hook"), CallableV("h1")}

InitReplay ==
    \/ \E a \in ReauthCtorArgs : InitWith("session", a, MaxReplayOps)
    \/ \E a \in ReauthCtorArgs : InitWith("newsession", a, MaxReplayOps)

NextReplay ==
    \/ \E s \in Servers : session_hooked_get(<<"http", "a">>, s)
    \/ \E h \in ReplayHookInputs : session_response_hooks(h)
    \/ \E h \in RedirectHookInputs : session_redirect_header_hook(h)
    \/ session_clear_response_hooks
    \/ \E a \in ReauthAuth : session_auth(a)
    \/ \E v \in ReauthLimits : session_max_reauth(v)
    \/ \E s \in Servers : newsession_hooked_get(<<"http", "a">>, s)
    \/ \E h \in ReplayHookInputs : newsession_response_hooks(h)
    \/ \E h \in RedirectHookInputs : newsession_redirect_header_hook(h)
    \/ newsession_clear_response_hooks
    \/ \E a \in ReauthAuth : newsession_auth(a)
    \/ \E v \in ReauthLimits : newsession_max_reauth(v)

SpecReplay == InitReplay /\ [][NextReplay]_vars

\* the session is configured with the hook that re-authenticates and re-sends
HasReplayHook == "auth_response_hook" \in Range(params.response_hooks)

\* C26: with a user hook that answers every 401 by reauth() and a re-send, a
\* request to a server that answers 401 for ever ends after at most
\* max_reauth replays with the max-reauth error (RequestHTTPError), whatever
\* the configured auth object is.
C26_ReplayBoundedByMaxReauth ==
    (last.op = "hooked_get" /\ HasReplayHook /\ req.server = Forever401) =>
        /\ params.max_reauth.ty = "int"
        /\ Len(wire) - 1 <= params.max_reauth.val
        /\ last.raised = "RequestHTTPError"

\* the names of the hooks of the transport's list, in its order
Pipeline == [i \in DOMAIN http.hooks |-> http.hooks[i].items[1]]

\* the first place of the replaying hook in the pipeline
ReplayAt == CHOOSE i \in DOMAIN Pipeline :
                /\ Pipeline[i] = "auth_response_hook"
                /\ \A k \in 1..(i - 1) : Pipeline[k] # "auth_response_hook"

-----------------------------------------------------------------------------
(* Origins that differ in one component.  A netloc is host or host:port;   *)
(* the specification makes one redirect from a URL of host a.              *)

OtherPort == <<"https", "a:8443">>
OriginLocations == Origins \cup {OtherPort}

\* urlparse(url).hostname
HostOf(url) == IF url[2] = "a:8443" THEN "a" ELSE url[2]

InitOrigins ==
    \/ \E a \in FlowCtorArgs : InitWith("session", a, MaxFlowOps)
    \/ InitWith("newsession", SESSION_DEFAULTS, MaxFlowOps)

NextOrigins ==
    \/ \E d \in FlowAuthHeaders : session_auth_headers(d)
    \/ \E u \in Origins : \E l \in OriginLocations : session_request(u, <<l>>)
    \/ \E d \in FlowAuthHeaders : newsession_auth_headers(d)
    \/ \E u \in Origins : \E l \in OriginLocations : newsession_request(u, <<l>>)

SpecOrigins == InitOrigins /\ [][NextOrigins]_vars

OnlySchemeDiffers(url, location) == url[1] # location[1] /\ url[2] = location[2]
OnlyPortDiffers(url, location) ==
    url[1] = location[1] /\ HostOf(url) = HostOf(location) /\ url[2] # location[2]

\* C28: a redirect whose Location differs from the request URL only in the
\* scheme, or only in the port, is cross-origin: the request re-sent to it
\* carries none of the configured auth headers.
C28_SchemeOrPortChangeStripsAuthHeaders ==
    (/\ last.op = "request"
     /\ Len(req.locations) = 1
     /\ ConfiguredAuthKeys # {}
     /\ \/ OnlySchemeDiffers(req.url, req.locations[1])
        \/ OnlyPortDiffers(req.url, req.locations[1])) =>
        /\ Len(wire) = 2
        /\ wire[2].url = req.locations[1]
        /\ \A h \in wire[2].headers : h[1] \notin ConfiguredAuthKeys

-----------------------------------------------------------------------------
(* Claims about the key set of the redirect hook, checked under SpecFlow.  *)

\* the request just made was redirected, first of all, to another host
RedirectedToOtherHost ==
    /\ last.op = "request"
    /\ req.locations # << >>
    /\ req.locations[1] # Relative
    /\ req.locations[1][2] # req.url[2]

-----------------------------------------------------------------------------
(* Threads that call a singleton class at the same time.  Singleton.__call__ *)
(* takes no lock: a thread can be switched out between the membership test,  *)
(* the construction, the store into the cache and the final lookup, so each  *)
(* of these is a step of its own.                                            *)

\* bookkeeping of one step of thread t
ThreadDid(t, raised) ==
    /\ ops > 0
    /\ last' = [op |-> "Singleton.__call__", arg |-> IntV(t), raised |-> raised]
    /\ ops' = ops - 1

\* what no step of a thread touches: the object the caller holds
ThreadFrame == UNCHANGED <<rev, ctor, params, adapters, http, reauth_count,
                           max_reauth_attr, max_reauth_given, auth_calls, closure_keys,
                           req, wire, self>>

\* if cls not in cls._instances:
Singleton_call_check(t, cls, a) ==
    /\ rev = "session"
    /\ threads[t].pc = "idle"
    /\ threads' = [threads EXCEPT ![t] =
                      [pc |-> IF InCache(cls) THEN "return" ELSE "construct",
                       cls |-> cls, args |-> Kwargs(a), instance |-> 0, returned |-> 0]]
    /\ ThreadDid(t, "none")
    /\ UNCHANGED <<heap, instances>>
    /\ ThreadFrame

\* instance = super().__call__(*args, **kwargs)
Singleton_call_construct(t) ==
    LET a == threads[t].args.val
        raised == InitRaises(rev, a)
    IN  /\ threads[t].pc = "construct"
        /\ IF raised = "none"
           THEN /\ Len(heap) < MaxObjects
                /\ heap' = Append(heap, New(threads[t].cls, a))
                /\ threads' = [threads EXCEPT ![t].pc = "store",
                                              ![t].instance = Len(heap) + 1]
           ELSE /\ UNCHANGED heap
                /\ threads' = [threads EXCEPT ![t].pc = "raised"]
        /\ ThreadDid(t, raised)
        /\ UNCHANGED instances
        /\ ThreadFrame

\* cls._instances[cls] = instance
Singleton_call_store(t) ==
    /\ threads[t].pc = "store"
    /\ instances' = Store(threads[t].cls, threads[t].instance)
    /\ threads' = [threads EXCEPT ![t].pc = "return"]
    /\ ThreadDid(t, "none")
    /\ UNCHANGED heap
    /\ ThreadFrame

\* return cls._instances[cls]
Singleton_call_return(t) ==
    /\ threads[t].pc = "return"
    /\ threads' = [threads EXCEPT ![t].pc = "done",
                                  ![t].returned = Lookup[threads[t].cls]]
    /\ ThreadDid(t, "none")
    /\ UNCHANGED <<heap, instances>>
    /\ ThreadFrame

ThreadCtorArgs ==
    {[SESSION_DEFAULTS EXCEPT !.timeout = t] :
        t \in {IntV(DefaultTimeout), IntV(7), StrV("short")}}

InitThreads == InitWith("session", SESSION_DEFAULTS, MaxThreadOps)

NextThreads ==
    \/ \E t \in Threads : \E c \in SingletonClasses : \E a \in ThreadCtorArgs :
           Singleton_call_check(t, c, a)
    \/ \E t \in Threads : Singleton_call_construct(t)
    \/ \E t \in Threads : Singleton_call_store(t)
    \/ \E t \in Threads : Singleton_call_return(t)

SpecThreads == InitThreads /\ [][NextThreads]_vars

\* C30: when two threads construct the same singleton class at the same
\* time, at most one instance of the class is created and both calls return
\* that instance: no interleaving of the membership test and the store
\* yields two distinct objects.
C30_ConcurrentConstructionYieldsOneInstance ==
    \A c \in SingletonClasses :
        /\ Cardinality({i \in DOMAIN heap : heap[i].cls = c}) <= 1
        /\ \A t, u \in Threads :
              (/\ threads[t].pc = "done" /\ threads[t].cls = c
               /\ threads[u].pc = "done" /\ threads[u].cls = c) =>
                  threads[t].returned = threads[u].returned

-----------------------------------------------------------------------------
(* Threads that assign response_hooks on the same session.  The setter is  *)
(*     self._session_params.response_hooks =                               *)
(*         self._session_params.response_hooks + hooks                     *)
(*     self.http.hooks["response"] = self.redirect_header_hook +           *)
(*         self.response_hooks + self.request_exception_hook               *)
(* with no lock: each statement reads, and writes in a later step.  A      *)
(* thread records whether it ran the setter alone from start to end.       *)

MaxSetterOps == 8

\* some other thread is inside the setter
OthersInSetter(t) ==
    \E u \in Threads \ {t} : threads[u].pc \in {"store", "build", "install"}

\* what no step of a setter thread touches
SetterThreadFrame == UNCHANGED <<rev, ctor, adapters, reauth_count, max_reauth_attr,
                                 max_reauth_given, auth_calls, closure_keys, req, wire,
                                 instances, heap, self>>

\* the right-hand side: self._session_params.response_hooks + hooks
response_hooks_read(t, hook) ==
    /\ rev \in {"session", "newsession"}
    /\ threads[t].pc = "idle"
    /\ threads' = [threads EXCEPT ![t] =
                      [pc |-> "store", hook |-> hook.val,
                       local |-> params.response_hooks \o HookNames(AsList(hook)),
                       alone |-> ~OthersInSetter(t)]]
    /\ ThreadDid(t, "none")
    /\ UNCHANGED <<params, http>>
    /\ SetterThreadFrame

\* a store that keeps the given hooks only
response_hooks_store_given(t) ==
    /\ threads[t].pc = "store"
    /\ params' = [params EXCEPT !.response_hooks = <<threads[t].hook>>]
    /\ threads' = [threads EXCEPT ![t].pc = "build",
                                  ![t].alone = @ /\ ~OthersInSetter(t)]
    /\ ThreadDid(t, "none")
    /\ UNCHANGED http
    /\ SetterThreadFrame

\* the assignment: self._session_params.response_hooks = ...
response_hooks_store(t) ==
    /\ threads[t].pc = "store"
    /\ params' = [params EXCEPT !.response_hooks = threads[t].local]
    /\ threads' = [threads EXCEPT ![t].pc = "build",
                                  ![t].alone = @ /\ ~OthersInSetter(t)]
    /\ ThreadDid(t, "none")
    /\ UNCHANGED http
    /\ SetterThreadFrame

\* the right-hand side of the second statement, from the lists as they are now
response_hooks_build(t) ==
    /\ threads[t].pc = "build"
    /\ threads' = [threads EXCEPT ![t].pc = "install",
                                  ![t].local = Concatenated(params),
                                  ![t].alone = @ /\ ~OthersInSetter(t)]
    /\ ThreadDid(t, "none")
    /\ UNCHANGED <<params, http>>
    /\ SetterThreadFrame

\* the assignment: self.http.hooks["response"] = ...
response_hooks_install(t) ==
    /\ threads[t].pc = "install"
    /\ http' = [http EXCEPT !.hooks = threads[t].local]
    /\ threads' = [threads EXCEPT ![t].pc = "done",
                                  ![t].alone = @ /\ ~OthersInSetter(t)]
    /\ ThreadDid(t, "none")
    /\ UNCHANGED params
    /\ SetterThreadFrame

ThreadHooks == {CallableV("h1"), CallableV("h2")}

InitSetterThreads ==
    \E r \in {"session", "newsession"} : InitWith(r, SESSION_DEFAULTS, MaxSetterOps)

NextSetterThreads ==
    \/ \E t \in Threads : \E h \in ThreadHooks : response_hooks_read(t, h)
    \/ \E t \in Threads : response_hooks_store(t)
    \/ \E t \in Threads : response_hooks_build(t)
    \/ \E t \in Threads : response_hooks_install(t)

SpecSetterThreads == InitSetterThreads /\ [][NextSetterThreads]_vars

\* the threads that have left the setter, and how often they appended hook h
Finished == {t \in Threads : threads[t].pc = "done"}
Appended(h) == Cardinality({t \in Finished : threads[t].hook = h})
Occurs(h, s) == Cardinality({i \in DOMAIN s : s[i] = h})

\* every thread has left the setter and the user hooks, or the transport's
\* list, are not what the assignments add up to
LostUpdate ==
    /\ Finished = Threads
    /\ \/ \E h \in {"h1", "h2"} : Occurs(h, params.response_hooks) # Appended(h)
       \/ http.hooks # Concatenated(params)

\* C31: two threads that each append a response hook to the same session
\* can lose an update (the witness: the stored user hooks or the
\* transport's list lack a hook or disagree), while assignments that run
\* one after the other leave every appended hook in both lists.
C31_SequentialAppendsKeepEveryHook ==
    (\A t \in Threads : threads[t].pc \in {"idle", "done"}
                           /\ (threads[t].pc = "done" => threads[t].alone)) =>
        /\ \A h \in {"h1", "h2"} : Occurs(h, params.response_hooks) = Appended(h)
        /\ Finished # {} => http.hooks = Concatenated(params)

C31_Witness == LostUpdate

-----------------------------------------------------------------------------
(* Credentials assigned one by one, checked under SpecParams.              *)

\* C32: on a session constructed without credentials, once the username and
\* password setters have left two non-empty strings, in either order, the
\* session's auth and the transport's auth are (username, password).
C32_CredentialSettersInstallBasicAuth ==
    [][(/\ rev = "session"
        /\ last'.op \in {"username", "password"}
        /\ last'.raised = "none"
        /\ ctor.auth.ty = "none"
        /\ params.auth.ty \in {"none", "tuple"}
        /\ params'.username.ty = "str" /\ Truthy(params'.username)
        /\ params'.password.ty = "str" /\ Truthy(params'.password)) =>
           /\ params'.auth = TupleV(<<params'.username, params'.password>>)
           /\ http'.auth = params'.auth]_vars

\* C33: a setter that updates several fields is all-or-nothing: when an
\* assignment of auth_headers fails at any step, auth_headers, headers, the
\* transport's headers and the installed redirect hook are as they were
\* before the call.
C33_FailedAuthHeadersAssignmentChangesNothing ==
    [][(last'.op = "auth_headers" /\ last'.raised # "none") =>
           /\ params'.auth_headers = params.auth_headers
           /\ params'.headers = params.headers
           /\ http'.headers = http.headers
           /\ http'.hooks = http.hooks
           /\ params'.redirect_header_hook = params.redirect_header_hook
           /\ closure_keys' = closure_keys]_vars

-----------------------------------------------------------------------------
(* Several objects of the plain class, held by one caller who assigns to   *)
(* one or the other.                                                       *)

MaxInstanceOps == 3

\* the caller turns to object i, one of the objects it has constructed
Use(i) ==
    /\ i # self
    /\ Hold(Saved, i)
    /\ Did("use", IntV(i), "none")
    /\ UNCHANGED <<rev, instances, req, wire>>

InstanceCtorArgs == {SESSION_DEFAULTS, [SESSION_DEFAULTS EXCEPT !.timeout = IntV(7)]}
InstanceHeaders == {DictV({<<"Accept", "text/plain">>})}
InstanceAuthHeaders == {DictV({<<"X-AUTH-TOKEN", "t1">>})}
InstanceStatusLists == {ListV(<<IntV(500)>>)}

InitInstances ==
    \E r \in {"session", "newsession"} : InitWith(r, SESSION_DEFAULTS, MaxInstanceOps)

NextInstances ==
    \/ \E a \in InstanceCtorArgs : RestSession_call(a)
    \/ \E i \in DOMAIN heap : Use(i)
    \/ \E h \in InstanceHeaders : session_headers(h)
    \/ \E d \in InstanceAuthHeaders : session_auth_headers(d)
    \/ \E h \in ObjectHooks : session_response_hooks(h)
    \/ session_clear_response_hooks
    \/ \E v \in InstanceStatusLists : session_retry_status_code_list(v)
    \/ \E v \in ObjectTimeouts : session_timeout(v)
    \/ \E h \in InstanceHeaders : newsession_headers(h)
    \/ \E d \in InstanceAuthHeaders : newsession_auth_headers(d)
    \/ \E h \in ObjectHooks : newsession_response_hooks(h)
    \/ newsession_clear_response_hooks
    \/ \E v \in InstanceStatusLists : newsession_retry_status_code_list(v)
    \/ \E v \in ObjectTimeouts : newsession_timeout(v)

SpecInstances == InitInstances /\ [][NextInstances]_vars

-----------------------------------------------------------------------------
(* Several classes with the Singleton metaclass: RestSessionSingleton, a   *)
(* subclass of it, and a class that does not derive from it.               *)

MaxClassOps == 4

InitClasses == InitWith("session", SESSION_DEFAULTS, MaxClassOps)

NextClasses ==
    \/ \E c \in CacheClasses : \E a \in InstanceCtorArgs : Singleton_call(c, a)
    \/ \E i \in DOMAIN heap : RestSessionSingleton_exit(i)

SpecClasses == InitClasses /\ [][NextClasses]_vars

\* C35: the cache is keyed by class: two classes never share an instance,
\* and the exit of the context manager of an object of one singleton class
\* (a subclass included) removes the entry of that class only, so every
\* other class still finds its cached instance.
C35_ExitEvictsOnlyItsOwnClass ==
    /\ [](\A c, d \in CacheClasses :
            (c # d /\ InCache(c) /\ InCache(d)) => CacheOf(c)[c] # CacheOf(d)[d])
    /\ [][last'.op = "__exit__" =>
             \A d \in CacheClasses \ {heap[last'.arg.val].cls} :
                 CacheOf(d)[d]' = CacheOf(d)[d]]_vars

----------------------------------------------------------------------------
(* The counter against the ceiling.                                        *)

\* C36: in every reachable state reauth_count <= max_reauth, whatever
\* sequence of reauth() calls and max_reauth assignments led there, a
\* lowering of max_reauth after reauthentications included.
\* (stated for the ceilings the specification allows, the non-negative
\* integers)
C36_CounterNeverAboveCeiling ==
    (ReauthLimit.ty = "int" /\ ReauthLimit.val >= 0) => reauth_count <= ReauthLimit.val

----------------------------------------------------------------------------
(* The counter specification: one object of either revision, whose         *)
(* authenticator may fail to re-authenticate, under reauth() calls,        *)
(* requests with and without a replaying hook, and assignments of auth and *)
(* max_reauth.                                                             *)

MaxCounterOps == 4

CounterAuth == {NoneV, AuthBaseV("Reauth"), AuthBaseV("ReauthRaises")}
CounterCtorArgs ==
    {[SESSION_DEFAULTS EXCEPT !.auth = a] : a \in {AuthBaseV("Reauth"), AuthBaseV("ReauthRaises")}}
CounterLimits == {IntV(0), IntV(2)}
CounterServers == {Once401, [first |-> << >>, then |-> 200]}

InitCounter ==
    \/ \E a \in CounterCtorArgs : InitWith("session", a, MaxCounterOps)
    \/ \E a \in CounterCtorArgs : InitWith("newsession", a, MaxCounterOps)

NextCounter ==
    \/ session_reauth
    \/ \E s \in CounterServers : session_hooked_get(<<"http", "a">>, s)
    \/ session_response_hooks(CallableV("auth_response_hook"))
    \/ \E a \in CounterAuth : session_auth(a)
    \/ \E v \in CounterLimits : session_max_reauth(v)
    \/ newsession_reauth
    \/ \E s \in CounterServers : newsession_hooked_get(<<"http", "a">>, s)
    \/ newsession_response_hooks(CallableV("auth_response_hook"))
    \/ \E a \in CounterAuth : newsession_auth(a)
    \/ \E v \in CounterLimits : newsession_max_reauth(v)

SpecCounter == InitCounter /\ [][NextCounter]_vars

\* the reauth() call about to be made is within budget
InBudget ==
    HasReauth(params.auth) /\ ReauthLimit.ty = "int" /\ reauth_count < ReauthLimit.val

\* C37: reauth_count is 0 right after construction; afterwards it never
\* decreases and moves only together with a call of the authenticator's
\* reauth; a reauth() call within budget adds exactly one, also when the
\* authenticator's call raises (the increment comes first), a call outside
\* the budget adds nothing; no request, answered 200 at once or after a
\* replay, and no assignment resets or lowers it.
C37_CounterOnlyCountsUp ==
    /\ reauth_count = 0
    /\ [][ /\ reauth_count' >= reauth_count
           /\ reauth_count' - reauth_count = auth_calls' - auth_calls
           /\ (last'.op = "reauth" /\ ops' = ops - 1) =>
                  reauth_count' = IF InBudget THEN reauth_count + 1 ELSE reauth_count
           /\ (ops' = ops - 1 /\ last'.op \notin {"reauth", "hooked_get"}) =>
                  reauth_count' = reauth_count
           /\ (last'.op = "hooked_get" /\ ops' = ops - 1 /\ req'.status = 200
                  /\ req'.server.first = << >>) =>
                  reauth_count' = reauth_count ]_vars

\* a reauth() within budget whose authenticator raised has consumed one unit
C37_Witness ==
    /\ last.op = "reauth" /\ last.raised = "ConnectionError"
    /\ reauth_count = 2

----------------------------------------------------------------------------
(* With blocks on singleton sessions.  threads[b] is the position of with  *)
(* block b of the callers: idle, or inside the block ("with") holding the  *)
(* object its __enter__ returned.  Blocks may be nested in one caller or   *)
(* overlap between callers.                                                *)

MaxContextOps == 6

\* with block b is running
Active(b) == threads[b].pc = "with"

\* `with cls(**a) as s:` once cls(**a) has returned: RestSession.__enter__
\* returns the object, and block b is entered holding it
RestSession_enter(b) ==
    /\ ~Active(b)
    /\ last.op \in SingletonClasses /\ last.raised = "none"
    /\ threads' = [threads EXCEPT ![b].pc = "with", ![b].cls = heap[self].cls,
                                  ![b].instance = self]
    /\ ops > 0
    /\ last' = [op |-> "__enter__", arg |-> IntV(self), raised |-> "none"]
    /\ ops' = ops - 1
    /\ UNCHANGED <<rev, ctor, params, adapters, http, reauth_count, max_reauth_attr,
                   max_reauth_given, auth_calls, closure_keys, req, wire, instances,
                   heap, self>>

\* the end of with block b: __exit__ of the object the block holds
With_exit(b) ==
    /\ Active(b)
    /\ RestSessionSingleton_exit_body(threads[b].instance)
    /\ threads' = [threads EXCEPT ![b] = NoThreads[b]]
    /\ ops > 0
    /\ last' = [op |-> "__exit__", arg |-> IntV(threads[b].instance), raised |-> "none"]
    /\ ops' = ops - 1

InitContexts == InitWith("session", SESSION_DEFAULTS, MaxContextOps)

NextContexts ==
    \/ \E c \in SingletonClasses : \E a \in ThreadCtorArgs : Singleton_call(c, a)
    \/ \E b \in Threads : RestSession_enter(b)
    \/ \E b \in Threads : With_exit(b)

SpecContexts == InitContexts /\ [][NextContexts]_vars

\* C38: while a with block on a singleton session is running, the session it
\* holds is open and is the instance a construction of its class returns:
\* entering and leaving a second block on the same class, nested or
\* overlapping, neither closes the transport of the object the outer block
\* still uses nor evicts it from the cache.
C38_ActiveContextHoldsOpenCachedInstance ==
    \A b \in Threads :
        Active(b) =>
            /\ ~heap[threads[b].instance].closed
            /\ CacheOf(threads[b].cls)[threads[b].cls] = threads[b].instance

----------------------------------------------------------------------------
(* Constructions that raise.                                               *)

\* the construction of singleton class c that has just been made raised
Failed(c) == last.op = c /\ last.raised # "none"

\* C39: a construction of a singleton class whose constructor raises stores
\* nothing: the cache and the objects are as before.  The construction call
\* that follows it runs the constructor with its own arguments: it raises
\* what they make the constructor raise and, when they are valid, returns a
\* new object built from them, which the cache then holds.
C39_FailedConstructionStoresNothing ==
    [][\A c \in SingletonClasses :
          /\ Failed(c)' =>
                 /\ instances' = instances
                 /\ heap' = heap /\ self' = self /\ Fields' = Fields
                 /\ ~InCache(c)'
          /\ (Failed(c) /\ last'.op = c /\ ops' = ops - 1) =>
                 /\ last'.raised = InitRaises(rev, last'.arg.val)
                 /\ last'.raised = "none" =>
                        /\ self' \notin DOMAIN heap
                        /\ Fields' = Fresh(rev, last'.arg.val)
                        /\ CacheOf(c)[c]' = self']_vars

\* a singleton construction has raised after an earlier instance of the class
\* left its context manager: the cache holds nothing for the class
C39_Witness ==
    /\ Failed("RestSessionSingleton")
    /\ ~InCache("RestSessionSingleton")
    /\ \E i \in DOMAIN heap : heap[i].cls = "RestSessionSingleton" /\ heap[i].closed

====
